---------------------------- MODULE Spec2Model ----------------------------
(***************************************************************************)
(* Model of the bridge supervision layer of focuswizard:                   *)
(*   BridgeManager (bridge-manager.ts) - lifecycle of the focus_bridge     *)
(*     process, JSON-lines decoding of its stdout, notifications;          *)
(*   FrameWriter (frame-writer.ts) - the shared frame directory.           *)
(*                                                                         *)
(* Text is modelled as sequences of symbols.  A stdout chunk is a sequence *)
(* of bytes; "C3" "A9" are the two bytes of one non-ASCII character        *)
(* (U+00E9), every other byte is an ASCII character.  A JSON event line    *)
(* {"type":T,"data":D} is written  "{" T d1 .. dn "}"  where T is a type   *)
(* letter and d1..dn are the characters of the payload: D is the object    *)
(* {"status":"d1..dn"} in a status record, {"message":"d1..dn"} in an      *)
(* error record, and the object written d1..dn in any other record.        *)
(***************************************************************************)
EXTENDS Integers, Sequences, FiniteSets, TLC

VARIABLES
  mode,         \* BridgeManager.mode: "docker" | "local"
  process,      \* BridgeManager.process: 0 (null) or the id of a spawned process
  isReady,      \* BridgeManager.isReady
  lineBuffer,   \* BridgeManager.lineBuffer (decoded characters)
  frameWriter,  \* BridgeManager._frameWriter: NoWriter or the FrameWriter's fields
  dirExists,    \* the shared frame directory exists on disk
  dirFiles,     \* names of the files in the shared frame directory
  procState,    \* per spawned process: "unborn" | "alive" | "exited" | "closed"
  pending,      \* start() calls suspended at `await this.buildImage()`
  imageBuilt,   \* the docker image exists locally
  timers,       \* pending force-kill timers of stop(), oldest first
  readyFrom,    \* history: process whose stdout handler last set isReady
  lastOp,       \* history: the handler that ran last, with its pre-state
  emitted,      \* notifications emitted by the handler that ran last
  effects,      \* external effects of the handler that ran last, in order
  script,       \* codec harness: the lines of the output stream
  stream,       \* codec harness: the bytes of the output stream
  pos,          \* codec harness: bytes delivered so far
  dispatched,   \* codec harness: every notification emitted so far
  options,      \* BridgeManager.options (argument composition)
  args,         \* the argument array handed to spawn (argument composition)
  paths,        \* findBridgePath: what each candidate location holds
  apiKey,       \* main process: process.env.SMARTSPECTRA_API_KEY is non-empty
  bridge,       \* main process: `bridge` refers to a BridgeManager
  orphanStarts, \* main process: start() calls in flight on replaced managers
  monitor       \* main process: the screen-diff monitor, its clock and timers

vars == <<mode, process, isReady, lineBuffer, frameWriter, dirExists, dirFiles,
          procState, pending, imageBuilt, timers, readyFrom, lastOp, emitted,
          effects, script, stream, pos, dispatched, options, args, paths,
          apiKey, bridge, orphanStarts, monitor>>

managerVars == <<process, isReady, lineBuffer, frameWriter>>
dirVars == <<dirExists, dirFiles>>
hostVars == <<apiKey, bridge, orphanStarts, monitor>>
harnessVars == <<script, stream, pos, dispatched, options, args, paths,
                 hostVars>>

---------------------------------------------------------------------------
(* Bounds *)

MaxProcs == 3
MaxPending == 2
MaxTimers == 2
MaxBuf == 4
MaxLines == 3

ProcIds == 1..MaxProcs
ExitCodes == {0, 137}
NoWriter == [present |-> FALSE, active |-> FALSE, frameCount |-> 0]

\* An option that was not given (undefined), and one given with value v.
Unset == [set |-> FALSE, value |-> 0]
Given(v) == [set |-> TRUE, value |-> v]
NoOptions ==
  [gazeThreshold |-> Unset, blinkThreshold |-> Unset, pulseThreshold |-> Unset,
   breathingThreshold |-> Unset, cameraIndex |-> Unset, captureWidth |-> Unset,
   captureHeight |-> Unset]

\* The candidate locations of findBridgePath when none is looked at: no
\* override, no environment variable, nothing at the two default paths.
NoPaths ==
  [bridgePath |-> "unset", envPath |-> "unset", buildPath |-> "missing",
   resourcesPath |-> "missing"]

\* File names are sequences of characters; the name of the sentinel file.
EndOfStream == <<"end_of_stream">>

\* A timer handle that is null.
NoTimer == [kind |-> "none", due |-> 0]

\* The period of the screen-diff interval, in milliseconds.
SCREEN_DIFF_INTERVAL_MS == 1000

\* Date.now() when the application is launched: a time far from the epoch.
LaunchTime == 100 * SCREEN_DIFF_INTERVAL_MS

\* The module state of the screen-diff monitor before it is started: the
\* clock, the module variables, the timers the event loop holds, and the
\* last two triggers sent (history).
NoMonitor ==
  [now |-> LaunchTime, screenDiffInterval |-> NoTimer,
   previousBitmap |-> FALSE, lastTriggerTime |-> 0,
   pendingTriggerTimer |-> NoTimer, idleTimer |-> NoTimer, timeouts |-> {},
   triggers |-> <<>>]

---------------------------------------------------------------------------
(* Text helpers *)

LF == "LF"
SP == "SP"

RECURSIVE toString(_)
\* Buffer.toString(): UTF-8 decoding of one chunk on its own.  A lead byte
\* without its continuation byte, and a continuation byte without its lead
\* byte, each decode to the replacement character U+FFFD.
toString(bytes) ==
  IF bytes = <<>> THEN <<>>
  ELSE IF Head(bytes) = "C3"
       THEN IF Len(bytes) >= 2 /\ bytes[2] = "A9"
            THEN <<"U+00E9">> \o toString(SubSeq(bytes, 3, Len(bytes)))
            ELSE <<"U+FFFD">> \o toString(Tail(bytes))
       ELSE IF Head(bytes) = "A9"
            THEN <<"U+FFFD">> \o toString(Tail(bytes))
            ELSE <<Head(bytes)>> \o toString(Tail(bytes))

RECURSIVE split(_)
\* String.prototype.split("\n"): always at least one segment.
split(s) ==
  IF \A i \in 1..Len(s) : s[i] # LF THEN <<s>>
  ELSE LET i == CHOOSE k \in 1..Len(s) :
                  s[k] = LF /\ \A j \in 1..(k-1) : s[j] # LF
       IN <<SubSeq(s, 1, i-1)>> \o split(SubSeq(s, i+1, Len(s)))

\* White space and line terminators, which trim() strips.
WhiteSpace == {SP, LF}

RECURSIVE trimStart(_)
trimStart(s) ==
  IF s # <<>> /\ Head(s) \in WhiteSpace THEN trimStart(Tail(s)) ELSE s

RECURSIVE trimEnd(_)
trimEnd(s) ==
  IF s # <<>> /\ s[Len(s)] \in WhiteSpace
  THEN trimEnd(SubSeq(s, 1, Len(s)-1)) ELSE s

\* String.prototype.trim()
trim(s) == trimEnd(trimStart(s))

TypeLetters == {"r", "s", "f", "m", "d", "e", "x"}
PayloadChars == {"a", "U+00E9", "U+FFFD"}

\* The type tag a type letter stands for ("x": a tag outside the protocol).
TypeOf(t) ==
  CASE t = "r" -> "ready"
    [] t = "s" -> "status"
    [] t = "f" -> "focus"
    [] t = "m" -> "metrics"
    [] t = "d" -> "edge"
    [] t = "e" -> "error"
    [] OTHER   -> "other"

\* The `data` member of a record of the given type with the given payload.
DataOf(type, payload) ==
  CASE type = "status" -> [status |-> payload]
    [] type = "error"  -> [message |-> payload]
    [] OTHER           -> payload

\* JSON.parse(trimmed): ok = FALSE stands for the SyntaxError it throws.
JSONParse(s) ==
  IF /\ Len(s) >= 3
     /\ s[1] = "{"
     /\ s[Len(s)] = "}"
     /\ s[2] \in TypeLetters
     /\ \A i \in 3..(Len(s)-1) : s[i] \in PayloadChars
  THEN [ok |-> TRUE, type |-> TypeOf(s[2]),
        data |-> DataOf(TypeOf(s[2]), SubSeq(s, 3, Len(s)-1))]
  ELSE [ok |-> FALSE, type |-> "none", data |-> <<>>]

Note(kind, data) == [kind |-> kind, data |-> data]

---------------------------------------------------------------------------
(* BridgeManager: decoding and dispatch *)

\* case "ready" emitting only when the flag was not yet set.
handleReadyOnce(message, ready) ==
  [isReady |-> TRUE,
   emits |-> IF ready THEN <<>> ELSE <<Note("ready", <<>>)>>]

\* case "ready"
handleReady(message, ready) ==
  [isReady |-> TRUE, emits |-> <<Note("ready", <<>>)>>]

\* case "error" treating the engine's error as the end of the session.
handleErrorEndsSession(message, ready) ==
  [isReady |-> FALSE, emits |-> <<Note("bridge-error", message.data.message)>>]

\* case "error"
handleError(message, ready) ==
  [isReady |-> ready, emits |-> <<Note("bridge-error", message.data.message)>>]

\* default: forwarding the record under its own tag.
handleDefaultForwards(message, ready) ==
  [isReady |-> ready, emits |-> <<Note(message.type, message.data)>>]

\* default: console.warn only.
handleDefault(message, ready) ==
  [isReady |-> ready, emits |-> <<>>]

\* handleMessage(message) with a status notification that carries no text.
handleMessageStatusEmpty(message, ready) ==
  CASE message.type = "ready" -> handleReady(message, ready)
    [] message.type = "focus" ->
         [isReady |-> ready, emits |-> <<Note("focus", message.data)>>]
    [] message.type = "metrics" ->
         [isReady |-> ready, emits |-> <<Note("metrics", message.data)>>]
    [] message.type = "edge" ->
         [isReady |-> ready, emits |-> <<Note("edge", message.data)>>]
    [] message.type = "status" ->
         [isReady |-> ready, emits |-> <<Note("status", <<>>)>>]
    [] message.type = "error" -> handleError(message, ready)
    [] OTHER -> handleDefault(message, ready)

\* handleMessage(message), applied to the ready flag: the new flag and the
\* notifications emitted.
handleMessage(message, ready) ==
  CASE message.type = "ready" -> handleReady(message, ready)
    [] message.type = "focus" ->
         [isReady |-> ready, emits |-> <<Note("focus", message.data)>>]
    [] message.type = "metrics" ->
         [isReady |-> ready, emits |-> <<Note("metrics", message.data)>>]
    [] message.type = "edge" ->
         [isReady |-> ready, emits |-> <<Note("edge", message.data)>>]
    [] message.type = "status" ->
         [isReady |-> ready, emits |-> <<Note("status", message.data.status)>>]
    [] message.type = "error" -> handleError(message, ready)
    [] OTHER -> handleDefault(message, ready)

\* The body of the for loop of processLines for one line.
processLine(line, acc) ==
  LET trimmed == trim(line)
      message == JSONParse(trimmed)
  IN IF trimmed = <<>> THEN acc
     ELSE IF ~message.ok THEN acc
     ELSE LET h == handleMessage(message, acc.isReady)
          IN [isReady  |-> h.isReady,
              emits    |-> acc.emits \o h.emits,
              sawReady |-> acc.sawReady \/ message.type = "ready"]

RECURSIVE forLinesAbortOnError(_, _)
\* The loop with the try/catch around it: a parse failure ends the loop.
forLinesAbortOnError(lines, acc) ==
  IF lines = <<>> THEN acc
  ELSE IF trim(Head(lines)) # <<>> /\ ~JSONParse(trim(Head(lines))).ok THEN acc
  ELSE forLinesAbortOnError(Tail(lines), processLine(Head(lines), acc))

RECURSIVE forLines(_, _)
\* for (const line of lines) { ... }
forLines(lines, acc) ==
  IF lines = <<>> THEN acc
  ELSE forLines(Tail(lines), processLine(Head(lines), acc))

\* processLines() forgetting the incomplete last segment.
processLinesDropsPartial(buffer, ready) ==
  LET lines == split(buffer)
      n     == Len(lines)
      r     == forLines(SubSeq(lines, 1, n-1),
                        [isReady |-> ready, emits |-> <<>>, sawReady |-> FALSE])
  IN [lineBuffer |-> <<>>,
      isReady    |-> r.isReady,
      emits      |-> r.emits,
      sawReady   |-> r.sawReady]

\* processLines() on a buffer: the retained last segment, and the result of
\* handling every complete line in order.
processLines(buffer, ready) ==
  LET lines == split(buffer)
      n     == Len(lines)
      r     == forLines(SubSeq(lines, 1, n-1),
                        [isReady |-> ready, emits |-> <<>>, sawReady |-> FALSE])
  IN [lineBuffer |-> lines[n],
      isReady    |-> r.isReady,
      emits      |-> r.emits,
      sawReady   |-> r.sawReady]

\* The stdout handler assigning the chunk to the buffer instead of appending.
stdoutHandlerReplaces(p, chunk) ==
  LET r == processLines(toString(chunk), isReady)
  IN /\ lineBuffer' = r.lineBuffer
     /\ isReady' = r.isReady
     /\ emitted' = r.emits
     /\ readyFrom' = IF r.sawReady THEN p ELSE readyFrom

\* The stdout "data" handler of process p on one chunk.
stdoutHandler(p, chunk) ==
  LET r == processLines(lineBuffer \o toString(chunk), isReady)
  IN /\ lineBuffer' = r.lineBuffer
     /\ isReady' = r.isReady
     /\ emitted' = r.emits
     /\ readyFrom' = IF r.sawReady THEN p ELSE readyFrom

\* get running()
running == process # 0 /\ isReady

---------------------------------------------------------------------------
(* FrameWriter *)

\* init() without the creation of a missing directory.
initNoMkdir ==
  /\ frameWriter' = [present |-> TRUE, active |-> TRUE, frameCount |-> 0]
  /\ dirExists' = dirExists
  /\ dirFiles' = {}

\* new FrameWriter(frameDir) followed by init(): the directory exists and is
\* emptied by clearFrames(), the counter is reset, the channel is active.
init ==
  /\ frameWriter' = [present |-> TRUE, active |-> TRUE, frameCount |-> 0]
  /\ dirExists' = TRUE
  /\ dirFiles' = {}

---------------------------------------------------------------------------
(* BridgeManager: lifecycle *)

\* The record kept in lastOp: the handler, its arguments and outcome, and the
\* parts of the state it started from that its contract speaks about.
Op(name, p, code, result) ==
  [op |-> name, proc |-> p, code |-> code, result |-> result,
   hadProcess |-> process # 0, hadWriter |-> frameWriter.present,
   wasReady |-> isReady]

Born == {p \in ProcIds : procState[p] # "unborn"}
Alive == {p \in ProcIds : procState[p] = "alive"}
NewProc == Cardinality(Born) + 1
CanSpawn == NewProc \in ProcIds
PendingCount == pending.quick + pending.build

\* Handlers queued on the event loop run only when no continuation of an
\* already resolved promise is waiting.
NoMicrotask == pending.quick = 0

\* spawn(...) and attachProcessHandlers(): the new process becomes the handle.
spawn(states) ==
  /\ process' = NewProc
  /\ procState' = [states EXCEPT ![NewProc] = "alive"]

\* A container-level kill (docker rm -f, docker stop): it ends the processes
\* of the supervisor's containers, or it fails or times out and ends none.
Killed(ok) ==
  IF ok THEN [p \in ProcIds |-> IF procState[p] = "alive" THEN "exited"
                                 ELSE procState[p]]
  ELSE procState

\* start() with a session already active: throws "Bridge is already running".
startRejected ==
  /\ lastOp' = Op("start", 0, 0, "AlreadyRunning")
  /\ emitted' = <<>>
  /\ effects' = <<>>
  /\ UNCHANGED <<mode, managerVars, dirVars, procState, pending, imageBuilt,
                 timers, readyFrom, harnessVars>>

\* startLocal() setting up a frame channel as the containerized start does.
startLocalWithChannel ==
  /\ \/ /\ lastOp' = Op("start", 0, 0, "BinaryNotFound")
        /\ effects' = <<>>
        /\ UNCHANGED <<process, procState, frameWriter, dirVars>>
     \/ /\ CanSpawn
        /\ init
        /\ spawn(procState)
        /\ lastOp' = Op("start", NewProc, 0, "ok")
        /\ effects' = <<"init", "spawn">>
  /\ emitted' = <<>>
  /\ UNCHANGED <<mode, isReady, lineBuffer, pending, imageBuilt, timers,
                 readyFrom, harnessVars>>

\* startLocal(): findBridgePath() throws when no candidate exists; otherwise
\* the native binary is spawned at once.
startLocal ==
  /\ \/ /\ lastOp' = Op("start", 0, 0, "BinaryNotFound")
        /\ effects' = <<>>
        /\ UNCHANGED <<process, procState>>
     \/ /\ CanSpawn
        /\ spawn(procState)
        /\ lastOp' = Op("start", NewProc, 0, "ok")
        /\ effects' = <<"spawn">>
  /\ emitted' = <<>>
  /\ UNCHANGED <<mode, isReady, lineBuffer, frameWriter, dirVars, pending,
                 imageBuilt, timers, readyFrom, harnessVars>>

\* A start whose image test reports the image as absent whatever the case.
startDockerAlwaysBuilds ==
  /\ \/ /\ lastOp' = Op("start", 0, 0, "RuntimeUnavailable")
        /\ emitted' = <<>>
        /\ effects' = <<"dockerInfo">>
        /\ UNCHANGED pending
     \/ /\ lastOp' = Op("start", 0, 0, "ProjectRootNotFound")
        /\ emitted' = <<>>
        /\ effects' = <<"dockerInfo", "imageInspect">>
        /\ UNCHANGED pending
     \/ /\ PendingCount < MaxPending
        /\ lastOp' = Op("start", 0, 0, "pending")
        /\ emitted' = <<Note("status", "Building Docker image")>>
        /\ effects' = <<"dockerInfo", "imageInspect", "spawnBuild">>
        /\ pending' = [pending EXCEPT !.build = @ + 1]
  /\ UNCHANGED <<mode, managerVars, dirVars, procState, imageBuilt, timers,
                 readyFrom, harnessVars>>

\* startDocker() up to `await this.buildImage()`: the runtime probe
\* (`docker info`), then buildImage() up to the point where its promise is
\* returned: the image test (`docker image inspect`) and, with the image
\* absent, the search for the project root and the spawn of `docker build`.
startDocker ==
  /\ \/ /\ lastOp' = Op("start", 0, 0, "RuntimeUnavailable")
        /\ emitted' = <<>>
        /\ effects' = <<"dockerInfo">>
        /\ UNCHANGED pending
     \/ /\ imageBuilt
        /\ PendingCount < MaxPending
        /\ lastOp' = Op("start", 0, 0, "pending")
        /\ emitted' = <<Note("status", "Docker image already built")>>
        /\ effects' = <<"dockerInfo", "imageInspect">>
        /\ pending' = [pending EXCEPT !.quick = @ + 1]
     \/ /\ ~imageBuilt
        /\ lastOp' = Op("start", 0, 0, "ProjectRootNotFound")
        /\ emitted' = <<>>
        /\ effects' = <<"dockerInfo", "imageInspect">>
        /\ UNCHANGED pending
     \/ /\ ~imageBuilt
        /\ PendingCount < MaxPending
        /\ lastOp' = Op("start", 0, 0, "pending")
        /\ emitted' = <<Note("status", "Building Docker image")>>
        /\ effects' = <<"dockerInfo", "imageInspect", "spawnBuild">>
        /\ pending' = [pending EXCEPT !.build = @ + 1]
  /\ UNCHANGED <<mode, managerVars, dirVars, procState, imageBuilt, timers,
                 readyFrom, harnessVars>>

\* start() with the guard testing the ready flag instead of the handle.
startGuardsOnReady ==
  IF isReady THEN startRejected
  ELSE IF mode = "docker" THEN startDocker
  ELSE startLocal

\* start()
start ==
  IF process # 0 THEN startRejected
  ELSE IF mode = "docker" THEN startDocker
  ELSE startLocal

\* The stdout handler of a running `docker build`: a truncated status line.
buildProgress ==
  /\ pending.build > 0
  /\ NoMicrotask
  /\ lastOp' = Op("buildProgress", 0, 0, "ok")
  /\ emitted' = <<Note("status", "Building: ...")>>
  /\ effects' = <<>>
  /\ UNCHANGED <<mode, managerVars, dirVars, procState, pending, imageBuilt,
                 timers, readyFrom, harnessVars>>

\* A failed build after which the frame channel is set up all the same.
buildFailedLeavesChannel ==
  /\ pending.build > 0
  /\ NoMicrotask
  /\ pending' = [pending EXCEPT !.build = @ - 1]
  /\ init
  /\ lastOp' = Op("startDocker", 0, 0, "ImageBuildFailed")
  /\ emitted' = <<>>
  /\ effects' = <<>>
  /\ UNCHANGED <<mode, process, isReady, lineBuffer, procState, imageBuilt,
                 timers, readyFrom, harnessVars>>

\* The `docker build` process closes with a non-zero code or errors: the
\* promise of buildImage() is rejected and start() fails.
buildFailed ==
  /\ pending.build > 0
  /\ NoMicrotask
  /\ pending' = [pending EXCEPT !.build = @ - 1]
  /\ lastOp' = Op("startDocker", 0, 0, "ImageBuildFailed")
  /\ emitted' = <<>>
  /\ effects' = <<>>
  /\ UNCHANGED <<mode, managerVars, dirVars, procState, imageBuilt, timers,
                 readyFrom, harnessVars>>

\* startDocker() after `await this.buildImage()`: remove a stale container,
\* create and initialise the frame channel, spawn `docker run`.
startDockerResume(built, rmOk) ==
  /\ CanSpawn
  /\ IF built
     THEN /\ pending.build > 0
          /\ NoMicrotask
          /\ pending' = [pending EXCEPT !.build = @ - 1]
          /\ emitted' = <<Note("status", "Docker image built successfully"),
                          Note("status", "Starting SmartSpectra container...")>>
     ELSE /\ pending.quick > 0
          /\ pending' = [pending EXCEPT !.quick = @ - 1]
          /\ emitted' = <<Note("status", "Starting SmartSpectra container...")>>
  /\ imageBuilt' = TRUE
  /\ init
  /\ spawn(Killed(rmOk))
  /\ lastOp' = Op("startDocker", NewProc, 0, "ok")
  /\ effects' = <<"dockerRm", "init", "spawn">>
  /\ UNCHANGED <<mode, isReady, lineBuffer, timers, readyFrom, harnessVars>>

\* stop() requesting termination without looking at the handle.
stopAlwaysTerminates == TRUE

\* stop(): `if (this.process)`, the guard of the termination request.
stopHasProcess == process # 0

\* stop() with the sentinel written after the termination request.
stopOrderLate(sentinel, terminate, cleanup) == terminate \o sentinel \o cleanup

\* stop(): the order of its three blocks - sentinel, termination, cleanup.
stopOrder(sentinel, terminate, cleanup) == sentinel \o terminate \o cleanup

\* stop() releasing the frame channel only when it had a process to terminate.
stopCleansWithProcess ==
  LET hasWriter == frameWriter.present
      hasProc   == stopHasProcess
      sentinel  == IF hasWriter /\ dirExists THEN <<"sentinel">> ELSE <<>>
      cleanup   == IF hasWriter THEN <<"cleanup">> ELSE <<>>
  IN /\ \/ /\ ~hasProc
           /\ effects' = stopOrder(sentinel, <<>>, cleanup)
           /\ UNCHANGED <<procState, timers>>
        \/ /\ hasProc
           /\ mode = "docker"
           /\ \E ok \in BOOLEAN : procState' = Killed(ok)
           /\ effects' = stopOrder(sentinel, <<"dockerStop">>, cleanup)
           /\ UNCHANGED timers
        \/ /\ hasProc
           /\ mode = "local"
           /\ Len(timers) < MaxTimers
           /\ timers' = Append(timers, process)
           /\ effects' = stopOrder(sentinel, <<"SIGTERM", "setTimeout">>, cleanup)
           /\ UNCHANGED procState
     /\ IF hasWriter /\ hasProc
        THEN /\ frameWriter' = NoWriter
             /\ dirExists' = FALSE
             /\ dirFiles' = {}
        ELSE UNCHANGED <<frameWriter, dirVars>>
     /\ lastOp' = Op("stop", process, 0, "ok")
     /\ emitted' = <<>>
     /\ UNCHANGED <<mode, process, isReady, lineBuffer, pending, imageBuilt,
                    readyFrom, harnessVars>>

\* stop()
stop ==
  LET hasWriter == frameWriter.present
      hasProc   == stopHasProcess
      sentinel  == IF hasWriter /\ dirExists THEN <<"sentinel">> ELSE <<>>
      cleanup   == IF hasWriter THEN <<"cleanup">> ELSE <<>>
  IN /\ \/ /\ ~hasProc
           /\ effects' = stopOrder(sentinel, <<>>, cleanup)
           /\ UNCHANGED <<procState, timers>>
        \/ /\ hasProc
           /\ mode = "docker"
           /\ \E ok \in BOOLEAN : procState' = Killed(ok)
           /\ effects' = stopOrder(sentinel, <<"dockerStop">>, cleanup)
           /\ UNCHANGED timers
        \/ /\ hasProc
           /\ mode = "local"
           /\ Len(timers) < MaxTimers
           /\ timers' = Append(timers, process)
           /\ effects' = stopOrder(sentinel, <<"SIGTERM", "setTimeout">>, cleanup)
           /\ UNCHANGED procState
     /\ IF hasWriter
        THEN /\ frameWriter' = NoWriter
             /\ dirExists' = FALSE
             /\ dirFiles' = {}
        ELSE UNCHANGED <<frameWriter, dirVars>>
     /\ lastOp' = Op("stop", process, 0, "ok")
     /\ emitted' = <<>>
     /\ UNCHANGED <<mode, process, isReady, lineBuffer, pending, imageBuilt,
                    readyFrom, harnessVars>>

\* The callback of the setTimeout of stop(): SIGKILL to whatever process the
\* handle refers to when the delay has elapsed.
forceKill ==
  /\ timers # <<>>
  /\ NoMicrotask
  /\ timers' = Tail(timers)
  /\ IF process # 0
     THEN /\ procState' = [procState EXCEPT
                             ![process] = IF @ = "alive" THEN "exited" ELSE @]
          /\ effects' = <<"SIGKILL">>
     ELSE /\ UNCHANGED procState
          /\ effects' = <<>>
  /\ lastOp' = Op("forceKill", Head(timers), 0, "ok")
  /\ emitted' = <<>>
  /\ UNCHANGED <<mode, managerVars, dirVars, pending, imageBuilt, readyFrom,
                 harnessVars>>

\* Chunks a process writes to its stdout.
Chunks ==
  { <<"{", "r", "}", LF>>, <<"{", "r">>, <<"}", LF>>, <<"{", "e", "a", "}", LF>> }

\* process.stdout.on("data"): the handler belongs to the process it was
\* attached to and runs for the output of that process until its close.
stdoutData(p, chunk) ==
  /\ procState[p] \in {"alive", "exited"}
  /\ NoMicrotask
  /\ Len(lineBuffer) + Len(chunk) <= MaxBuf
  /\ stdoutHandler(p, chunk)
  /\ lastOp' = Op("stdout", p, 0, "ok")
  /\ effects' = <<>>
  /\ UNCHANGED <<mode, process, frameWriter, dirVars, procState, pending,
                 imageBuilt, timers, harnessVars>>

\* Chunks a process writes to its stderr: an event line, and a blank line.
StderrChunks == { <<"{", "r", "}", LF>>, <<LF>> }

\* console.log(`[Bridge stderr] ${text}`) unless the trimmed text is empty.
stderrLog(chunk) ==
  LET text == trim(toString(chunk))
  IN  IF text # <<>> THEN <<"console.log">> \o text ELSE <<>>

\* The stderr handler feeding the chunk to the decoder of stdout.
stderrDataParsed(p, chunk) ==
  /\ procState[p] \in {"alive", "exited"}
  /\ NoMicrotask
  /\ Len(lineBuffer) + Len(chunk) <= MaxBuf
  /\ stdoutHandler(p, chunk)
  /\ lastOp' = Op("stderr", p, 0, "ok")
  /\ effects' = stderrLog(chunk)
  /\ UNCHANGED <<mode, process, frameWriter, dirVars, procState, pending,
                 imageBuilt, timers, harnessVars>>

\* process.stderr.on("data"): the trimmed text is logged, nothing else.
stderrData(p, chunk) ==
  /\ procState[p] \in {"alive", "exited"}
  /\ NoMicrotask
  /\ lastOp' = Op("stderr", p, 0, "ok")
  /\ emitted' = <<>>
  /\ effects' = stderrLog(chunk)
  /\ UNCHANGED <<mode, managerVars, dirVars, procState, pending, imageBuilt,
                 timers, readyFrom, harnessVars>>

\* The error handler treating the error as the end of the process.
errorHandlerCloses(p) ==
  /\ procState[p] \in {"alive", "exited"}
  /\ NoMicrotask
  /\ process' = 0
  /\ isReady' = FALSE
  /\ lastOp' = Op("error", p, 0, "ok")
  /\ emitted' = <<Note("error", <<>>), Note("close", <<0>>)>>
  /\ effects' = <<>>
  /\ UNCHANGED <<mode, lineBuffer, frameWriter, dirVars, procState, pending,
                 imageBuilt, timers, readyFrom, harnessVars>>

\* process.on("error"): the child could not be spawned, could not be killed
\* or could not be sent to; logged and re-emitted as "error", nothing assigned.
errorHandler(p) ==
  /\ procState[p] \in {"alive", "exited"}
  /\ NoMicrotask
  /\ lastOp' = Op("error", p, 0, "ok")
  /\ emitted' = <<Note("error", <<>>)>>
  /\ effects' = <<>>
  /\ UNCHANGED <<mode, managerVars, dirVars, procState, pending, imageBuilt,
                 timers, readyFrom, harnessVars>>

\* The operating system ends process p (on its own, or after a signal).
processExit(p) ==
  /\ procState[p] = "alive"
  /\ procState' = [procState EXCEPT ![p] = "exited"]
  /\ lastOp' = Op("exit", p, 0, "ok")
  /\ emitted' = <<>>
  /\ effects' = <<>>
  /\ UNCHANGED <<mode, managerVars, dirVars, pending, imageBuilt, timers,
                 readyFrom, harnessVars>>

\* The close handler leaving the ready flag as it was.
closeHandlerKeepsReady(p, code) ==
  /\ procState[p] = "exited"
  /\ NoMicrotask
  /\ procState' = [procState EXCEPT ![p] = "closed"]
  /\ process' = 0
  /\ emitted' = <<Note("close", <<code>>)>>
  /\ lastOp' = Op("close", p, code, "ok")
  /\ effects' = <<>>
  /\ UNCHANGED <<mode, isReady, lineBuffer, frameWriter, dirVars, pending,
                 imageBuilt, timers, readyFrom, harnessVars>>

\* process.on("close"): runs once p has ended and its output was delivered.
closeHandler(p, code) ==
  /\ procState[p] = "exited"
  /\ NoMicrotask
  /\ procState' = [procState EXCEPT ![p] = "closed"]
  /\ process' = 0
  /\ isReady' = FALSE
  /\ emitted' = <<Note("close", <<code>>)>>
  /\ lastOp' = Op("close", p, code, "ok")
  /\ effects' = <<>>
  /\ UNCHANGED <<mode, lineBuffer, frameWriter, dirVars, pending, imageBuilt,
                 timers, readyFrom, harnessVars>>

---------------------------------------------------------------------------
(* The supervisor under every interleaving of calls and events *)

Init ==
  /\ mode \in {"docker", "local"}
  /\ process = 0
  /\ isReady = FALSE
  /\ lineBuffer = <<>>
  /\ frameWriter = NoWriter
  /\ dirExists \in BOOLEAN
  /\ dirFiles \in (IF dirExists THEN {{}, {EndOfStream}} ELSE {{}})
  /\ procState = [p \in ProcIds |-> "unborn"]
  /\ pending = [quick |-> 0, build |-> 0]
  /\ imageBuilt \in BOOLEAN
  /\ timers = <<>>
  /\ readyFrom = 0
  /\ lastOp = [op |-> "new", proc |-> 0, code |-> 0, result |-> "ok",
               hadProcess |-> FALSE, hadWriter |-> FALSE, wasReady |-> FALSE]
  /\ emitted = <<>>
  /\ effects = <<>>
  /\ script = [lines |-> <<>>, terminated |-> FALSE]
  /\ stream = <<>>
  /\ pos = 0
  /\ dispatched = <<>>
  /\ options = NoOptions
  /\ args = <<>>
  /\ paths = NoPaths
  /\ apiKey = TRUE
  /\ bridge = TRUE
  /\ orphanStarts = 0
  /\ monitor = NoMonitor

Next ==
  \/ start
  \/ buildProgress
  \/ buildFailed
  \/ \E built, rmOk \in BOOLEAN : startDockerResume(built, rmOk)
  \/ stop
  \/ forceKill
  \/ \E p \in ProcIds, chunk \in Chunks : stdoutData(p, chunk)
  \/ \E p \in ProcIds, chunk \in StderrChunks : stderrData(p, chunk)
  \/ \E p \in ProcIds : processExit(p)
  \/ \E p \in ProcIds, code \in ExitCodes : closeHandler(p, code)
  \/ \E p \in ProcIds : errorHandler(p)

Spec == Init /\ [][Next]_vars

---------------------------------------------------------------------------
(* The codec on one output stream under every chunking *)

LineKinds ==
  {"ready", "readyPadded", "focus", "status", "error", "unknown",
   "malformed", "blank"}

\* The bytes of one line of each kind, without its terminator.
LineBytes(kind) ==
  CASE kind = "ready"       -> <<"{", "r", "}">>
    [] kind = "readyPadded" -> <<SP, "{", "r", "}", SP>>
    [] kind = "focus"       -> <<"{", "f", "a", "}">>
    [] kind = "metrics"     -> <<"{", "m", "a", "}">>
    [] kind = "edge"        -> <<"{", "d", "a", "a", "}">>
    [] kind = "status"      -> <<"{", "s", "C3", "A9", "}">>
    [] kind = "error"       -> <<"{", "e", "a", "}">>
    [] kind = "unknown"     -> <<"{", "x", "}">>
    [] kind = "malformed"   -> <<"{", "r">>
    [] OTHER                -> <<>>

RECURSIVE StreamOf(_, _)
\* The output stream made of the given lines; the last line is followed by a
\* line terminator only if terminated.
StreamOf(lines, terminated) ==
  IF lines = <<>> THEN <<>>
  ELSE IF Len(lines) = 1
       THEN LineBytes(lines[1]) \o (IF terminated THEN <<LF>> ELSE <<>>)
       ELSE LineBytes(lines[1]) \o <<LF>> \o StreamOf(Tail(lines), terminated)

Scripts ==
  [lines : UNION {[1..n -> LineKinds] : n \in 1..MaxLines},
   terminated : BOOLEAN]

InitCodec ==
  /\ mode = "docker"
  /\ process = 1
  /\ isReady = FALSE
  /\ lineBuffer = <<>>
  /\ frameWriter = [present |-> TRUE, active |-> TRUE, frameCount |-> 0]
  /\ dirExists = TRUE
  /\ dirFiles = {}
  /\ procState = [p \in ProcIds |-> IF p = 1 THEN "alive" ELSE "unborn"]
  /\ pending = [quick |-> 0, build |-> 0]
  /\ imageBuilt = TRUE
  /\ timers = <<>>
  /\ readyFrom = 0
  /\ lastOp = [op |-> "startDocker", proc |-> 1, code |-> 0, result |-> "ok",
               hadProcess |-> FALSE, hadWriter |-> FALSE, wasReady |-> FALSE]
  /\ emitted = <<>>
  /\ effects = <<"dockerRm", "init", "spawn">>
  /\ script \in Scripts
  /\ stream = StreamOf(script.lines, script.terminated)
  /\ pos = 0
  /\ dispatched = <<>>
  /\ options = NoOptions
  /\ args = <<>>
  /\ paths = NoPaths
  /\ apiKey = TRUE
  /\ bridge = TRUE
  /\ orphanStarts = 0
  /\ monitor = NoMonitor

\* The stdout "data" handler on the next n bytes of the stream.
stdoutFeed(n) ==
  /\ process # 0
  /\ pos + n <= Len(stream)
  /\ stdoutHandler(process, SubSeq(stream, pos + 1, pos + n))
  /\ pos' = pos + n
  /\ dispatched' = dispatched \o emitted'
  /\ lastOp' = Op("stdout", process, 0, "ok")
  /\ effects' = <<>>
  /\ UNCHANGED <<mode, process, frameWriter, dirVars, procState, pending,
                 imageBuilt, timers, script, stream, options, args, paths,
                 hostVars>>

NextCodec == \E n \in 1..(Len(stream) - pos) : stdoutFeed(n)

SpecCodec == InitCodec /\ [][NextCodec]_vars

---------------------------------------------------------------------------
(* What a stream is expected to yield, line by line *)

\* The notification a line of each kind stands for (none for a line that is
\* blank, malformed or of a type outside the protocol).
ExpectedOf(kind) ==
  CASE kind \in {"ready", "readyPadded"} -> <<Note("ready", <<>>)>>
    [] kind = "focus"  -> <<Note("focus", <<"a">>)>>
    [] kind = "status" -> <<Note("status", <<"U+00E9">>)>>
    [] kind = "error"  -> <<Note("bridge-error", <<"a">>)>>
    [] OTHER           -> <<>>

IsEvent(kind) == ExpectedOf(kind) # <<>>

\* The offset in the stream of the terminator of line i.
LineEnd(i) == Len(StreamOf(SubSeq(script.lines, 1, i), TRUE))

\* The lines whose terminator lies in the bytes a+1..b of the stream.
CompletedIn(a, b) ==
  {i \in 1..Len(script.lines) :
     /\ i < Len(script.lines) \/ script.terminated
     /\ a < LineEnd(i)
     /\ LineEnd(i) <= b}

RECURSIVE ExpectedOfLines(_)
ExpectedOfLines(lines) ==
  IF lines = <<>> THEN <<>>
  ELSE ExpectedOf(Head(lines)) \o ExpectedOfLines(Tail(lines))

\* The notifications of the lines that are complete in the first n bytes.
ExpectedUpTo(n) ==
  ExpectedOfLines(SubSeq(script.lines, 1, Cardinality(CompletedIn(0, n))))

KindsOf(notes) == [k \in 1..Len(notes) |-> notes[k].kind]

---------------------------------------------------------------------------
(* Decoding and dispatch of the records of the protocol, every chunking *)

MaxRecords == 2

\* Lines that carry one record of each type of the protocol.
RecordKinds == {"ready", "focus", "metrics", "edge", "status", "error"}

RecordScripts ==
  [lines : UNION {[1..n -> RecordKinds] : n \in 1..MaxRecords},
   terminated : BOOLEAN]

InitDispatch ==
  /\ mode = "docker"
  /\ process = 1
  /\ isReady = FALSE
  /\ lineBuffer = <<>>
  /\ frameWriter = [present |-> TRUE, active |-> TRUE, frameCount |-> 0]
  /\ dirExists = TRUE
  /\ dirFiles = {}
  /\ procState = [p \in ProcIds |-> IF p = 1 THEN "alive" ELSE "unborn"]
  /\ pending = [quick |-> 0, build |-> 0]
  /\ imageBuilt = TRUE
  /\ timers = <<>>
  /\ readyFrom = 0
  /\ lastOp = [op |-> "startDocker", proc |-> 1, code |-> 0, result |-> "ok",
               hadProcess |-> FALSE, hadWriter |-> FALSE, wasReady |-> FALSE]
  /\ emitted = <<>>
  /\ effects = <<"dockerRm", "init", "spawn">>
  /\ script \in RecordScripts
  /\ stream = StreamOf(script.lines, script.terminated)
  /\ pos = 0
  /\ dispatched = <<>>
  /\ options = NoOptions
  /\ args = <<>>
  /\ paths = NoPaths
  /\ apiKey = TRUE
  /\ bridge = TRUE
  /\ orphanStarts = 0
  /\ monitor = NoMonitor

NextDispatch == \E n \in 1..(Len(stream) - pos) : stdoutFeed(n)

SpecDispatch == InitDispatch /\ [][NextDispatch]_vars

---------------------------------------------------------------------------
(* FrameWriter on its own: every sequence of calls on one channel *)

MaxFrames == 3
PadWidth == 16

Timestamps == {0, 500, 1000, 1500, 1999999999}

Digits == <<"0", "1", "2", "3", "4", "5", "6", "7", "8", "9">>

RECURSIVE numberToString(_)
\* Number.prototype.toString() of a non-negative integer: decimal digits
\* without leading zeros.
numberToString(n) ==
  IF n < 10 THEN <<Digits[n + 1]>>
  ELSE numberToString(n \div 10) \o <<Digits[(n % 10) + 1]>>

RECURSIVE padStart(_, _, _)
\* String.prototype.padStart(width, fill): fills on the left up to width and
\* never shortens.
padStart(str, width, fill) ==
  IF Len(str) >= width THEN str ELSE padStart(<<fill>> \o str, width, fill)

\* The file name of writeFrame without the padding.
frameNameUnpadded(timestampUs) ==
  <<"frame">> \o numberToString(timestampUs) \o <<".jpg">>

\* `frame${padded}.jpg` of writeFrame.
frameName(timestampUs) ==
  <<"frame">> \o padStart(numberToString(timestampUs), PadWidth, "0") \o <<".jpg">>

\* The rank of a character in the order that sorts file names.
CharCode(c) ==
  IF \E d \in 1..10 : Digits[d] = c
  THEN 10 + (CHOOSE d \in 1..10 : Digits[d] = c)
  ELSE CASE c = ".jpg"          -> 1
         [] c = "end_of_stream" -> 30
         [] c = "frame"         -> 31
         [] OTHER               -> 40

\* a sorts strictly before b in a listing sorted by name.
LexLess(a, b) ==
  \E k \in 1..(Len(b)) :
    /\ \A j \in 1..(k-1) : j <= Len(a) /\ a[j] = b[j]
    /\ \/ k = Len(a) + 1
       \/ k <= Len(a) /\ CharCode(a[k]) < CharCode(b[k])

\* writeFrame() without the test of the active flag.
writeFrameUnguarded(timestampUs) ==
  /\ frameWriter.frameCount < MaxFrames
  /\ IF dirExists
     THEN /\ dirFiles' = dirFiles \cup {frameName(timestampUs)}
          /\ frameWriter' = [frameWriter EXCEPT !.frameCount = @ + 1]
          /\ lastOp' = Op("writeFrame", 0, timestampUs, "written")
          /\ effects' = <<"writeFile">>
     ELSE /\ UNCHANGED <<dirFiles, frameWriter>>
          /\ lastOp' = Op("writeFrame", 0, timestampUs, "failed")
          /\ effects' = <<>>
  /\ emitted' = <<>>
  /\ UNCHANGED <<mode, process, isReady, lineBuffer, dirExists, procState,
                 pending, imageBuilt, timers, readyFrom, harnessVars>>

\* writeFrame(timestampUs, jpegData)
writeFrame(timestampUs) ==
  /\ frameWriter.frameCount < MaxFrames
  /\ IF ~frameWriter.active
     THEN /\ UNCHANGED <<dirFiles, frameWriter>>
          /\ lastOp' = Op("writeFrame", 0, timestampUs, "dropped")
          /\ effects' = <<>>
     ELSE IF dirExists
     THEN /\ dirFiles' = dirFiles \cup {frameName(timestampUs)}
          /\ frameWriter' = [frameWriter EXCEPT !.frameCount = @ + 1]
          /\ lastOp' = Op("writeFrame", 0, timestampUs, "written")
          /\ effects' = <<"writeFile">>
     ELSE /\ UNCHANGED <<dirFiles, frameWriter>>
          /\ lastOp' = Op("writeFrame", 0, timestampUs, "failed")
          /\ effects' = <<>>
  /\ emitted' = <<>>
  /\ UNCHANGED <<mode, process, isReady, lineBuffer, dirExists, procState,
                 pending, imageBuilt, timers, readyFrom, harnessVars>>

\* writeEndOfStream() counting the marker as a frame.
writeEndOfStreamCounted ==
  /\ frameWriter.frameCount < MaxFrames
  /\ IF dirExists
     THEN /\ dirFiles' = dirFiles \cup {EndOfStream}
          /\ frameWriter' = [frameWriter EXCEPT !.frameCount = @ + 1]
          /\ effects' = <<"sentinel">>
     ELSE /\ UNCHANGED <<dirFiles, frameWriter>>
          /\ effects' = <<>>
  /\ lastOp' = Op("writeEndOfStream", 0, 0, "ok")
  /\ emitted' = <<>>
  /\ UNCHANGED <<mode, process, isReady, lineBuffer, dirExists, procState,
                 pending, imageBuilt, timers, readyFrom, harnessVars>>

\* writeEndOfStream(): the write fails, silently, when the directory is gone.
writeEndOfStream ==
  /\ IF dirExists
     THEN /\ dirFiles' = dirFiles \cup {EndOfStream}
          /\ effects' = <<"sentinel">>
     ELSE /\ UNCHANGED dirFiles
          /\ effects' = <<>>
  /\ lastOp' = Op("writeEndOfStream", 0, 0, "ok")
  /\ emitted' = <<>>
  /\ UNCHANGED <<mode, managerVars, dirExists, procState, pending, imageBuilt,
                 timers, readyFrom, harnessVars>>

\* init() leaving the files it finds in the directory.
initChannelKeepsFiles ==
  /\ frameWriter' = [present |-> TRUE, active |-> TRUE, frameCount |-> 0]
  /\ dirExists' = TRUE
  /\ dirFiles' = dirFiles
  /\ lastOp' = Op("init", 0, 0, "ok")
  /\ emitted' = <<>>
  /\ effects' = <<"init">> \o (IF dirExists THEN <<>> ELSE <<"mkdir">>)
  /\ UNCHANGED <<mode, process, isReady, lineBuffer, procState, pending,
                 imageBuilt, timers, readyFrom, harnessVars>>

\* init() as a call on the channel; the effects tell whether the directory
\* had to be created and whether leftover files had to be deleted.
initChannel ==
  /\ init
  /\ lastOp' = Op("init", 0, 0, "ok")
  /\ emitted' = <<>>
  /\ effects' = <<"init">> \o (IF dirExists THEN <<>> ELSE <<"mkdir">>)
                           \o (IF dirFiles = {} THEN <<>> ELSE <<"unlink">>)
  /\ UNCHANGED <<mode, process, isReady, lineBuffer, procState, pending,
                 imageBuilt, timers, readyFrom, harnessVars>>

\* cleanup() leaving the files of the directory in place.
cleanupKeepsFiles ==
  /\ frameWriter' = [frameWriter EXCEPT !.active = FALSE]
  /\ UNCHANGED <<dirExists, dirFiles>>
  /\ lastOp' = Op("cleanup", 0, 0, "ok")
  /\ emitted' = <<>>
  /\ effects' = <<"cleanup">>
  /\ UNCHANGED <<mode, process, isReady, lineBuffer, procState, pending,
                 imageBuilt, timers, readyFrom, harnessVars>>

\* cleanup(): the channel becomes inactive, then rmSync(frameDir, {recursive,
\* force}) removes the directory and everything in it.
cleanup ==
  /\ frameWriter' = [frameWriter EXCEPT !.active = FALSE]
  /\ dirExists' = FALSE
  /\ dirFiles' = {}
  /\ lastOp' = Op("cleanup", 0, 0, "ok")
  /\ emitted' = <<>>
  /\ effects' = <<"cleanup">>
  /\ UNCHANGED <<mode, process, isReady, lineBuffer, procState, pending,
                 imageBuilt, timers, readyFrom, harnessVars>>

\* The directory is removed by someone else: the cleanup() of another
\* FrameWriter created on the same path.
dirRemoved ==
  /\ dirExists
  /\ dirExists' = FALSE
  /\ dirFiles' = {}
  /\ lastOp' = Op("dirRemoved", 0, 0, "ok")
  /\ emitted' = <<>>
  /\ effects' = <<>>
  /\ UNCHANGED <<mode, managerVars, procState, pending, imageBuilt, timers,
                 readyFrom, harnessVars>>

InitFrame ==
  /\ mode = "docker"
  /\ process = 0
  /\ isReady = FALSE
  /\ lineBuffer = <<>>
  /\ frameWriter = [present |-> TRUE, active |-> FALSE, frameCount |-> 0]
  /\ dirExists \in BOOLEAN
  /\ dirFiles \in (IF dirExists THEN SUBSET {EndOfStream, frameName(500)}
                   ELSE {{}})
  /\ procState = [p \in ProcIds |-> "unborn"]
  /\ pending = [quick |-> 0, build |-> 0]
  /\ imageBuilt = TRUE
  /\ timers = <<>>
  /\ readyFrom = 0
  /\ lastOp = [op |-> "new", proc |-> 0, code |-> 0, result |-> "ok",
               hadProcess |-> FALSE, hadWriter |-> FALSE, wasReady |-> FALSE]
  /\ emitted = <<>>
  /\ effects = <<>>
  /\ script = [lines |-> <<>>, terminated |-> FALSE]
  /\ stream = <<>>
  /\ pos = 0
  /\ dispatched = <<>>
  /\ options = NoOptions
  /\ args = <<>>
  /\ paths = NoPaths
  /\ apiKey = TRUE
  /\ bridge = TRUE
  /\ orphanStarts = 0
  /\ monitor = NoMonitor

NextFrame ==
  \/ initChannel
  \/ \E t \in Timestamps : writeFrame(t)
  \/ writeEndOfStream
  \/ cleanup
  \/ dirRemoved

SpecFrame == InitFrame /\ [][NextFrame]_vars

---------------------------------------------------------------------------
(* The arguments of the process, for every configuration *)

\* One element of the argument array: `flag` or `flag=value`.
Arg(flag, value) == [flag |-> flag, value |-> value]

\* `${n}` of a configured number.
Interpolate(o) == numberToString(o.value)

\* A test of the option by truthiness instead of `!== undefined`.
isSetTruthy(o) == o.set /\ o.value # 0

\* `this.options.x !== undefined`
isSet(o) == o.set

\* One `if (...) args.push(...)` statement.
pushIfSet(flag, o) ==
  IF isSet(o) THEN <<Arg(flag, Interpolate(o))>> ELSE <<>>

\* addThresholdArgs(args)
addThresholdArgs(a, o) ==
  a \o pushIfSet("--gaze_threshold", o.gazeThreshold)
    \o pushIfSet("--blink_threshold", o.blinkThreshold)
    \o pushIfSet("--pulse_threshold", o.pulseThreshold)
    \o pushIfSet("--breathing_threshold", o.breathingThreshold)

\* The arguments startDocker() passes to `docker`.
dockerArgs(o) ==
  addThresholdArgs(
    <<Arg("run", <<>>), Arg("--rm", <<>>),
      Arg("--platform", <<>>), Arg("linux/amd64", <<>>),
      Arg("--name", <<>>), Arg("dockerImage", <<>>),
      Arg("--dns", <<>>), Arg("8.8.8.8", <<>>),
      Arg("--dns", <<>>), Arg("8.8.4.4", <<>>),
      Arg("-v", <<>>), Arg("frameDir:/frames", <<>>),
      Arg("-e", <<>>), Arg("SMARTSPECTRA_API_KEY", <<"apiKey">>),
      Arg("dockerImage", <<>>),
      Arg("--mode", <<"server">>),
      Arg("--file_stream_path", <<"/frames/frame0000000000000000.jpg">>),
      Arg("--erase_read_files", <<"true">>),
      Arg("--rescan_delay_ms", <<"5">>)>>, o)

\* The arguments startLocal() passes to the native binary.
localArgs(o) ==
  addThresholdArgs(
    <<Arg("--api_key", <<"apiKey">>)>>
      \o pushIfSet("--camera_device_index", o.cameraIndex)
      \o pushIfSet("--capture_width", o.captureWidth)
      \o pushIfSet("--capture_height", o.captureHeight), o)

ThresholdValues == {Unset, Given(0), Given(5)}
GeometryValues == {Unset, Given(0)}

AllOptions ==
  [gazeThreshold : ThresholdValues, blinkThreshold : ThresholdValues,
   pulseThreshold : ThresholdValues, breathingThreshold : ThresholdValues,
   cameraIndex : GeometryValues, captureWidth : GeometryValues,
   captureHeight : GeometryValues]

InitArgs ==
  /\ mode \in {"docker", "local"}
  /\ process = 0
  /\ isReady = FALSE
  /\ lineBuffer = <<>>
  /\ frameWriter = NoWriter
  /\ dirExists = FALSE
  /\ dirFiles = {}
  /\ procState = [p \in ProcIds |-> "unborn"]
  /\ pending = [quick |-> 0, build |-> 0]
  /\ imageBuilt = TRUE
  /\ timers = <<>>
  /\ readyFrom = 0
  /\ lastOp = [op |-> "new", proc |-> 0, code |-> 0, result |-> "ok",
               hadProcess |-> FALSE, hadWriter |-> FALSE, wasReady |-> FALSE]
  /\ emitted = <<>>
  /\ effects = <<>>
  /\ script = [lines |-> <<>>, terminated |-> FALSE]
  /\ stream = <<>>
  /\ pos = 0
  /\ dispatched = <<>>
  /\ options \in AllOptions
  /\ args = <<>>
  /\ paths = NoPaths
  /\ apiKey = TRUE
  /\ bridge = TRUE
  /\ orphanStarts = 0
  /\ monitor = NoMonitor

\* startDocker() from the assembly of the arguments to the spawn.
startDockerArgs ==
  /\ mode = "docker"
  /\ process = 0
  /\ CanSpawn
  /\ args' = dockerArgs(options)
  /\ init
  /\ spawn(procState)
  /\ lastOp' = Op("startDocker", NewProc, 0, "ok")
  /\ emitted' = <<Note("status", "Starting SmartSpectra container...")>>
  /\ effects' = <<"init", "spawn">>
  /\ UNCHANGED <<mode, isReady, lineBuffer, pending, imageBuilt, timers,
                 readyFrom, script, stream, pos, dispatched, options, paths,
                 hostVars>>

\* startLocal() with the binary found.
startLocalArgs ==
  /\ mode = "local"
  /\ process = 0
  /\ CanSpawn
  /\ args' = localArgs(options)
  /\ spawn(procState)
  /\ lastOp' = Op("start", NewProc, 0, "ok")
  /\ emitted' = <<>>
  /\ effects' = <<"spawn">>
  /\ UNCHANGED <<mode, isReady, lineBuffer, frameWriter, dirVars, pending,
                 imageBuilt, timers, readyFrom, script, stream, pos,
                 dispatched, options, paths, hostVars>>

NextArgs ==
  \/ startDockerArgs
  \/ startLocalArgs

SpecArgs == InitArgs /\ [][NextArgs]_vars

---------------------------------------------------------------------------
(* The native binary, for every content of the candidate locations *)

\* What a candidate location can hold: an option or environment variable is
\* undefined, the empty string, a path with nothing at it, or a path to
\* something that exists; the two default paths are always non-empty strings.
GivenPaths == {"unset", "empty", "missing", "exists"}
DefaultPaths == {"missing", "exists"}

\* The candidates with the environment variable ahead of the option.
CandidatesEnvFirst(pth) ==
  <<[name |-> "envPath", at |-> pth.envPath],
    [name |-> "bridgePath", at |-> pth.bridgePath],
    [name |-> "buildPath", at |-> pth.buildPath],
    [name |-> "resourcesPath", at |-> pth.resourcesPath]>>

\* The array literal of findBridgePath, in its order.
Candidates(pth) ==
  <<[name |-> "bridgePath", at |-> pth.bridgePath],
    [name |-> "envPath", at |-> pth.envPath],
    [name |-> "buildPath", at |-> pth.buildPath],
    [name |-> "resourcesPath", at |-> pth.resourcesPath]>>

\* .filter(Boolean): undefined and "" are dropped.
filterBoolean(cands) ==
  SelectSeq(cands, LAMBDA c : c.at \notin {"unset", "empty"})

RECURSIVE firstExisting(_)
\* The for loop over the candidates: the first for which existsSync holds,
\* or the error thrown after the loop.
firstExisting(cands) ==
  IF cands = <<>> THEN "BinaryNotFound"
  ELSE IF Head(cands).at = "exists" THEN Head(cands).name
  ELSE firstExisting(Tail(cands))

\* findBridgePath()
findBridgePath(pth) == firstExisting(filterBoolean(Candidates(pth)))

InitResolve ==
  /\ mode = "local"
  /\ process = 0
  /\ isReady = FALSE
  /\ lineBuffer = <<>>
  /\ frameWriter = NoWriter
  /\ dirExists = FALSE
  /\ dirFiles = {}
  /\ procState = [p \in ProcIds |-> "unborn"]
  /\ pending = [quick |-> 0, build |-> 0]
  /\ imageBuilt = FALSE
  /\ timers = <<>>
  /\ readyFrom = 0
  /\ lastOp = [op |-> "new", proc |-> 0, code |-> 0, result |-> "ok",
               hadProcess |-> FALSE, hadWriter |-> FALSE, wasReady |-> FALSE]
  /\ emitted = <<>>
  /\ effects = <<>>
  /\ script = [lines |-> <<>>, terminated |-> FALSE]
  /\ stream = <<>>
  /\ pos = 0
  /\ dispatched = <<>>
  /\ options = NoOptions
  /\ args = <<>>
  /\ paths \in [bridgePath : GivenPaths, envPath : GivenPaths,
                buildPath : DefaultPaths, resourcesPath : DefaultPaths]
  /\ apiKey = TRUE
  /\ bridge = TRUE
  /\ orphanStarts = 0
  /\ monitor = NoMonitor

\* start() in local mode: startLocal() with the outcome of findBridgePath().
startLocalResolve ==
  /\ mode = "local"
  /\ process = 0
  /\ LET found == findBridgePath(paths)
     IN IF found = "BinaryNotFound"
        THEN /\ lastOp' = Op("start", 0, 0, "BinaryNotFound")
             /\ effects' = <<>>
             /\ args' = args
             /\ UNCHANGED <<process, procState>>
        ELSE /\ CanSpawn
             /\ spawn(procState)
             /\ lastOp' = Op("start", NewProc, 0, "ok")
             /\ effects' = <<"spawn", found>>
             /\ args' = localArgs(options)
  /\ emitted' = <<>>
  /\ UNCHANGED <<mode, isReady, lineBuffer, frameWriter, dirVars, pending,
                 imageBuilt, timers, readyFrom, script, stream, pos,
                 dispatched, options, paths, hostVars>>

NextResolve == startLocalResolve

SpecResolve == InitResolve /\ [][NextResolve]_vars

---------------------------------------------------------------------------
(* The main process: the `bridge` reference and its IPC handlers *)

\* The main process always creates its supervisor in docker mode.  While
\* `bridge` refers to a supervisor, the supervisor variables are its fields.
\* A supervisor that `bridge` no longer refers to cannot be reached by any
\* handler; its process is "orphaned" until it closes, and a start() of it
\* that is still waiting for the image build is counted in orphanStarts.
\* In this specification `emitted` holds what the handler sends to the
\* windows or to the supervisor's listeners.

HostTimestamps == {500, 1000}
ReadyLine == <<"{", "r", "}", LF>>

\* startBridge() going on whether or not a key is set.
hasApiKeyAlways(key) == TRUE

\* `if (!apiKey)` of startBridge(): the start goes on only with a key.
hasApiKey(key) == key

\* `bridge = new BridgeManager(...)`: the reference moves to a new supervisor;
\* the processes and the waiting starts of the old one are left behind.
newBridgeManager ==
  /\ bridge' = TRUE
  /\ process' = 0
  /\ isReady' = FALSE
  /\ lineBuffer' = <<>>
  /\ frameWriter' = NoWriter
  /\ readyFrom' = 0
  /\ orphanStarts' = orphanStarts + pending.build

\* The processes of the supervisor that `bridge` referred to, left behind.
Orphaned(states) ==
  [p \in ProcIds |-> IF states[p] \in {"alive", "exited"} THEN "orphaned"
                     ELSE states[p]]

\* ipcMain.handle("bridge:start"), with startBridge() up to the point where
\* bridge.start() returns its promise or throws.
bridgeStart(keyArg) ==
  /\ NoMicrotask
  /\ apiKey' = (apiKey \/ keyArg)
  /\ IF bridge /\ running
     THEN /\ lastOp' = Op("bridgeStart", 0, 0, "AlreadyRunning")
          /\ emitted' = <<>>
          /\ effects' = <<>>
          /\ UNCHANGED <<managerVars, readyFrom, procState, pending, bridge,
                         orphanStarts>>
     ELSE IF ~hasApiKey(apiKey')
     THEN /\ lastOp' = Op("bridgeStart", 0, 0, "NoApiKey")
          /\ emitted' = <<Note("bridge:error", "No SMARTSPECTRA_API_KEY set")>>
          /\ effects' = <<>>
          /\ UNCHANGED <<managerVars, readyFrom, procState, pending, bridge,
                         orphanStarts>>
     ELSE /\ newBridgeManager
          /\ procState' = Orphaned(procState)
          /\ \/ /\ lastOp' = Op("bridgeStart", 0, 0, "RuntimeUnavailable")
                /\ emitted' = <<Note("bridge:error", "RuntimeUnavailable")>>
                /\ effects' = <<"newBridgeManager">>
                /\ pending' = [quick |-> 0, build |-> 0]
             \/ /\ imageBuilt
                /\ orphanStarts + pending.build < MaxPending
                /\ lastOp' = Op("bridgeStart", 0, 0, "pending")
                /\ emitted' = <<Note("status", "Docker image already built")>>
                /\ effects' = <<"newBridgeManager">>
                /\ pending' = [quick |-> 1, build |-> 0]
             \/ /\ ~imageBuilt
                /\ lastOp' = Op("bridgeStart", 0, 0, "ProjectRootNotFound")
                /\ emitted' = <<Note("bridge:error", "ProjectRootNotFound")>>
                /\ effects' = <<"newBridgeManager">>
                /\ pending' = [quick |-> 0, build |-> 0]
             \/ /\ ~imageBuilt
                /\ orphanStarts + pending.build < MaxPending
                /\ lastOp' = Op("bridgeStart", 0, 0, "pending")
                /\ emitted' = <<Note("status", "Building Docker image")>>
                /\ effects' = <<"newBridgeManager", "spawnBuild">>
                /\ pending' = [quick |-> 0, build |-> 1]
  /\ UNCHANGED <<mode, dirVars, imageBuilt, timers, script, stream, pos,
                 dispatched, options, args, paths, monitor>>

\* The image build of the current supervisor fails: bridge.start() rejects and
\* the catch of startBridge() sends the message to the windows.
bridgeStartFailed ==
  /\ pending.build > 0
  /\ NoMicrotask
  /\ pending' = [pending EXCEPT !.build = @ - 1]
  /\ lastOp' = Op("bridgeStart", 0, 0, "ImageBuildFailed")
  /\ emitted' = <<Note("bridge:error", "ImageBuildFailed")>>
  /\ effects' = <<>>
  /\ UNCHANGED <<mode, managerVars, dirVars, procState, imageBuilt, timers,
                 readyFrom, harnessVars>>

\* The start() of a supervisor left behind gets past its image build and
\* runs to its end on that supervisor: `docker rm -f` of the shared container
\* name, init() on the shared directory, spawn.
orphanStartResume(rmOk) ==
  /\ orphanStarts > 0
  /\ NoMicrotask
  /\ CanSpawn
  /\ orphanStarts' = orphanStarts - 1
  /\ imageBuilt' = TRUE
  /\ dirExists' = TRUE
  /\ dirFiles' = {}
  /\ procState' = [Killed(rmOk) EXCEPT ![NewProc] = "orphaned"]
  /\ lastOp' = Op("orphanStart", NewProc, 0, "ok")
  /\ emitted' = <<Note("status", "Docker image built successfully"),
                  Note("status", "Starting SmartSpectra container...")>>
  /\ effects' = <<"dockerRm", "init", "spawn">>
  /\ UNCHANGED <<mode, managerVars, pending, timers, readyFrom, script,
                 stream, pos, dispatched, options, args, paths, apiKey,
                 bridge, monitor>>

\* The image build of a supervisor left behind fails.
orphanStartFailed ==
  /\ orphanStarts > 0
  /\ NoMicrotask
  /\ orphanStarts' = orphanStarts - 1
  /\ lastOp' = Op("orphanStart", 0, 0, "ImageBuildFailed")
  /\ emitted' = <<Note("bridge:error", "ImageBuildFailed")>>
  /\ effects' = <<>>
  /\ UNCHANGED <<mode, managerVars, dirVars, procState, pending, imageBuilt,
                 timers, readyFrom, script, stream, pos, dispatched, options,
                 args, paths, apiKey, bridge, monitor>>

\* The process of a supervisor left behind exits and closes: its supervisor
\* emits close, which its listener sends to the windows.
orphanClose(p, code) ==
  /\ procState[p] = "orphaned"
  /\ NoMicrotask
  /\ procState' = [procState EXCEPT ![p] = "closed"]
  /\ lastOp' = Op("orphanClose", p, code, "ok")
  /\ emitted' = <<Note("close", <<code>>)>>
  /\ effects' = <<>>
  /\ UNCHANGED <<mode, managerVars, dirVars, pending, imageBuilt, timers,
                 readyFrom, harnessVars>>

\* A handler that only writes the end-of-stream marker.
bridgeStopSentinelOnly ==
  /\ NoMicrotask
  /\ IF frameWriter.present /\ dirExists
     THEN /\ dirFiles' = dirFiles \cup {EndOfStream}
          /\ effects' = <<"sentinel">>
     ELSE /\ dirFiles' = dirFiles
          /\ effects' = <<>>
  /\ lastOp' = Op("stop", process, 0, "ok")
  /\ emitted' = <<>>
  /\ UNCHANGED <<mode, managerVars, dirExists, procState, pending, imageBuilt,
                 timers, readyFrom, harnessVars>>

\* ipcMain.handle("bridge:stop"), and the two quit handlers: bridge?.stop().
\* A supervisor that never started is stopped like no supervisor at all.
bridgeStop ==
  /\ NoMicrotask
  /\ stop

\* ipcMain.on("frame:data")
frameData(timestampUs) ==
  /\ NoMicrotask
  /\ IF frameWriter.present
     THEN writeFrame(timestampUs)
     ELSE /\ frameWriter.frameCount < MaxFrames
          /\ lastOp' = Op("frameData", 0, timestampUs, "noWriter")
          /\ emitted' = <<>>
          /\ effects' = <<>>
          /\ UNCHANGED <<mode, managerVars, dirVars, procState, pending,
                         imageBuilt, timers, readyFrom, harnessVars>>

InitHost ==
  /\ mode = "docker"
  /\ process = 0
  /\ isReady = FALSE
  /\ lineBuffer = <<>>
  /\ frameWriter = NoWriter
  /\ dirExists \in BOOLEAN
  /\ dirFiles \in (IF dirExists THEN {{}, {EndOfStream}} ELSE {{}})
  /\ procState = [p \in ProcIds |-> "unborn"]
  /\ pending = [quick |-> 0, build |-> 0]
  /\ imageBuilt \in BOOLEAN
  /\ timers = <<>>
  /\ readyFrom = 0
  /\ lastOp = [op |-> "new", proc |-> 0, code |-> 0, result |-> "ok",
               hadProcess |-> FALSE, hadWriter |-> FALSE, wasReady |-> FALSE]
  /\ emitted = <<>>
  /\ effects = <<>>
  /\ script = [lines |-> <<>>, terminated |-> FALSE]
  /\ stream = <<>>
  /\ pos = 0
  /\ dispatched = <<>>
  /\ options = NoOptions
  /\ args = <<>>
  /\ paths = NoPaths
  /\ apiKey \in BOOLEAN
  /\ bridge = FALSE
  /\ orphanStarts = 0
  /\ monitor = NoMonitor

NextHost ==
  \/ \E keyArg \in BOOLEAN : bridgeStart(keyArg)
  \/ bridgeStartFailed
  \/ \E built, rmOk \in BOOLEAN : startDockerResume(built, rmOk)
  \/ \E rmOk \in BOOLEAN : orphanStartResume(rmOk)
  \/ orphanStartFailed
  \/ bridgeStop
  \/ \E t \in HostTimestamps : frameData(t)
  \/ \E p \in ProcIds : stdoutData(p, ReadyLine)
  \/ \E p \in ProcIds : processExit(p)
  \/ \E p \in ProcIds, code \in ExitCodes : closeHandler(p, code)
  \/ \E p \in ProcIds, code \in ExitCodes : orphanClose(p, code)

SpecHost == InitHost /\ [][NextHost]_vars

---------------------------------------------------------------------------
(* The screen-diff monitor: change requests, cooldown and idle trigger *)

\* Time is counted in milliseconds and advances in steps of one interval
\* period.  A timer runs when the clock reaches its due time: the clock does
\* not advance past a timer that is due.

MaxTicks == 24

DELTA_THRESHOLD == 15
DEBOUNCE_MS == 5000
IDLE_TRIGGER_MS == 15000

\* The deltas computeDelta() may return, in hundredths.
Deltas == {0, 15, 16, 100}

\* setTimeout / setInterval: a timer of the given kind due after the delay.
Timer(kind, m, delay) == [kind |-> kind, due |-> m.now + delay]

\* clearTimeout(handle)
clearTimeout(m, handle) == [m EXCEPT !.timeouts = @ \ {handle}]

\* The history of triggers: the last two, each with its time and cause.
Sent(m, cause) ==
  LET all == Append(m.triggers, [time |-> m.now, cause |-> cause])
  IN IF Len(all) > 2 THEN Tail(all) ELSE all

\* resetIdleTimer() scheduling the new timer without clearing the old one.
resetIdleTimerNoClear(m) ==
  LET t == Timer("idle", m, IDLE_TRIGGER_MS)
  IN [m EXCEPT !.timeouts = @ \cup {t}, !.idleTimer = t]

\* resetIdleTimer()
resetIdleTimer(m) ==
  LET c == IF m.idleTimer # NoTimer THEN clearTimeout(m, m.idleTimer) ELSE m
      t == Timer("idle", m, IDLE_TRIGGER_MS)
  IN [c EXCEPT !.timeouts = @ \cup {t}, !.idleTimer = t]

\* emitScreenshotTrigger(): the time is recorded, the idle timer restarted,
\* the signal sent to the window.
emitScreenshotTrigger(m, cause) ==
  resetIdleTimer([m EXCEPT !.lastTriggerTime = m.now,
                           !.triggers = Sent(m, cause)])

\* requestScreenshotTrigger() firing at once whatever the time elapsed.
requestScreenshotTriggerNoCooldown(m) ==
  LET c == IF m.pendingTriggerTimer # NoTimer
           THEN [clearTimeout(m, m.pendingTriggerTimer)
                   EXCEPT !.pendingTriggerTimer = NoTimer]
           ELSE m
  IN emitScreenshotTrigger(c, "change")

\* requestScreenshotTrigger()
requestScreenshotTrigger(m) ==
  LET elapsed == m.now - m.lastTriggerTime
  IN IF elapsed >= DEBOUNCE_MS
     THEN LET c == IF m.pendingTriggerTimer # NoTimer
                   THEN [clearTimeout(m, m.pendingTriggerTimer)
                           EXCEPT !.pendingTriggerTimer = NoTimer]
                   ELSE m
          IN emitScreenshotTrigger(c, "change")
     ELSE IF m.pendingTriggerTimer = NoTimer
     THEN LET t == Timer("pending", m, DEBOUNCE_MS - elapsed)
          IN [m EXCEPT !.timeouts = @ \cup {t}, !.pendingTriggerTimer = t]
     ELSE m

\* What a handler of the monitor leaves behind: the new module state, and
\* the signal to the window if a trigger was sent.
monitorStep(name, result, m) ==
  /\ monitor' = m
  /\ lastOp' = Op(name, 0, 0, result)
  /\ emitted' = IF m.triggers # monitor.triggers
                THEN <<Note("focus-wizard:trigger-screenshot", <<>>)>>
                ELSE <<>>
  /\ effects' = <<>>
  /\ UNCHANGED <<mode, managerVars, dirVars, procState, pending, imageBuilt,
                 timers, readyFrom, script, stream, pos, dispatched, options,
                 args, paths, apiKey, bridge, orphanStarts>>

\* startScreenDiffMonitor(): nothing if the interval exists; otherwise the
\* idle timer is started and the interval is set.
startScreenDiffMonitor ==
  IF monitor.screenDiffInterval # NoTimer
  THEN monitorStep("startScreenDiffMonitor", "AlreadyStarted", monitor)
  ELSE LET m == resetIdleTimer(monitor)
           t == Timer("interval", m, SCREEN_DIFF_INTERVAL_MS)
       IN monitorStep("startScreenDiffMonitor", "ok",
                      [m EXCEPT !.timeouts = @ \cup {t},
                                !.screenDiffInterval = t])

\* The callback of the interval: a capture, which may fail; with a previous
\* bitmap of the same size, a change request if the delta exceeds the
\* threshold; the capture becomes the previous bitmap.
screenDiffInterval(captured, delta) ==
  /\ monitor.screenDiffInterval \in monitor.timeouts
  /\ monitor.now >= monitor.screenDiffInterval.due
  /\ LET t == Timer("interval", monitor, SCREEN_DIFF_INTERVAL_MS)
         m == [monitor EXCEPT !.timeouts = (@ \ {monitor.screenDiffInterval})
                                             \cup {t},
                              !.screenDiffInterval = t]
     IN IF ~captured
        THEN monitorStep("screenDiffInterval", "captureError", m)
        ELSE IF monitor.previousBitmap /\ delta > DELTA_THRESHOLD
        THEN monitorStep("screenDiffInterval", "requested",
                         requestScreenshotTrigger(
                           [m EXCEPT !.previousBitmap = TRUE]))
        ELSE monitorStep("screenDiffInterval", "quiet",
                         [m EXCEPT !.previousBitmap = TRUE])

\* The callback of the timer set by requestScreenshotTrigger().
pendingTriggerFire ==
  /\ monitor.pendingTriggerTimer \in monitor.timeouts
  /\ monitor.now >= monitor.pendingTriggerTimer.due
  /\ monitorStep("pendingTrigger", "ok",
        emitScreenshotTrigger(
          [monitor EXCEPT !.timeouts = @ \ {monitor.pendingTriggerTimer},
                          !.pendingTriggerTimer = NoTimer],
          "queued"))

\* The callback of a timer set by resetIdleTimer().
idleTimerFire ==
  \E t \in monitor.timeouts :
    /\ t.kind = "idle"
    /\ monitor.now >= t.due
    /\ monitorStep("idleTimer", "ok",
          emitScreenshotTrigger([monitor EXCEPT !.timeouts = @ \ {t}], "idle"))

\* Time passes, up to the next timer that is due.
tick ==
  /\ monitor.now < LaunchTime + MaxTicks * SCREEN_DIFF_INTERVAL_MS
  /\ \A t \in monitor.timeouts : monitor.now < t.due
  /\ monitorStep("tick", "ok",
                 [monitor EXCEPT !.now = @ + SCREEN_DIFF_INTERVAL_MS])

InitTrigger ==
  /\ mode = "docker"
  /\ process = 0
  /\ isReady = FALSE
  /\ lineBuffer = <<>>
  /\ frameWriter = NoWriter
  /\ dirExists = FALSE
  /\ dirFiles = {}
  /\ procState = [p \in ProcIds |-> "unborn"]
  /\ pending = [quick |-> 0, build |-> 0]
  /\ imageBuilt = TRUE
  /\ timers = <<>>
  /\ readyFrom = 0
  /\ lastOp = [op |-> "new", proc |-> 0, code |-> 0, result |-> "ok",
               hadProcess |-> FALSE, hadWriter |-> FALSE, wasReady |-> FALSE]
  /\ emitted = <<>>
  /\ effects = <<>>
  /\ script = [lines |-> <<>>, terminated |-> FALSE]
  /\ stream = <<>>
  /\ pos = 0
  /\ dispatched = <<>>
  /\ options = NoOptions
  /\ args = <<>>
  /\ paths = NoPaths
  /\ apiKey = TRUE
  /\ bridge = FALSE
  /\ orphanStarts = 0
  /\ monitor = NoMonitor

NextTrigger ==
  \/ startScreenDiffMonitor
  \/ \E captured \in BOOLEAN, delta \in Deltas :
       screenDiffInterval(captured, delta)
  \/ pendingTriggerFire
  \/ idleTimerFire
  \/ tick

SpecTrigger == InitTrigger /\ [][NextTrigger]_vars

---------------------------------------------------------------------------
(* Properties *)

InEffects(e) == \E k \in 1..Len(effects) : effects[k] = e

\* C1: start() on a supervisor whose process handle is present fails with
\* the already-running error and changes nothing: handle, ready flag, decode
\* buffer, frame channel and directory are unchanged, no process is spawned.
StartWhileActiveRejected ==
  [][ (lastOp'.op = "start" /\ process # 0) =>
        /\ lastOp'.result = "AlreadyRunning"
        /\ effects' = <<>>
        /\ UNCHANGED <<process, isReady, lineBuffer, frameWriter, dirExists,
                       dirFiles, procState, pending>> ]_vars

StartWhileActiveSeen ==
  /\ lastOp.op = "start"
  /\ lastOp.hadProcess
  /\ lastOp.result = "AlreadyRunning"
  /\ frameWriter.present
  /\ process \in Alive

\* C2: at most one spawned process is alive at any time, and the process
\* handle refers to the live process.
SingleLiveProcess ==
  /\ Cardinality(Alive) <= 1
  /\ \A p \in Alive : process = p

\* C3: stop() with no process handle and no frame channel is a no-op: no
\* sentinel, no termination request, no timer, no notification, no change of
\* the supervisor's state.
StopIdleIsNoOp ==
  [][ (lastOp'.op = "stop" /\ process = 0 /\ ~frameWriter.present) =>
        /\ effects' = <<>>
        /\ emitted' = <<>>
        /\ UNCHANGED <<mode, process, isReady, lineBuffer, frameWriter,
                       dirExists, dirFiles, procState, pending, imageBuilt,
                       timers>> ]_vars

StopIdleSeen ==
  /\ lastOp.op = "stop"
  /\ ~lastOp.hadProcess
  /\ ~lastOp.hadWriter
  /\ \E p \in ProcIds : procState[p] = "closed"

\* C4: a stop() that directly follows a stop() has no effect: no termination
\* request, no timer, no sentinel, nothing removed, no state change.
StopTwiceIsStopOnce ==
  [][ (lastOp.op = "stop" /\ lastOp'.op = "stop") =>
        /\ effects' = <<>>
        /\ UNCHANGED <<process, isReady, lineBuffer, frameWriter, dirExists,
                       dirFiles, procState, timers>> ]_vars

\* C5: the sentinel is written only by stop(), through the frame channel of
\* the session being stopped, once, before the termination request; that
\* stop() releases the channel, so no second sentinel follows for the session.
SentinelOnceAtStop ==
  [][ /\ Cardinality({k \in 1..Len(effects') : effects'[k] = "sentinel"}) <= 1
      /\ (\E k \in 1..Len(effects') : effects'[k] = "sentinel") =>
            /\ lastOp'.op = "stop"
            /\ frameWriter.present
            /\ ~frameWriter'.present
            /\ effects'[1] = "sentinel"
      /\ (lastOp'.op = "stop" /\ frameWriter.present) =>
            \E k \in 1..Len(effects') : effects'[k] = "sentinel" ]_vars

SentinelSeen ==
  /\ lastOp.op = "stop"
  /\ mode = "docker"
  /\ lastOp.hadWriter
  /\ lastOp.hadProcess
  /\ effects = <<"sentinel", "dockerStop", "cleanup">>

\* C6: whatever the chunking, the records dispatched so far are those that
\* feeding the delivered bytes as one chunk dispatches.
ChunkingInvariance ==
  dispatched = processLines(toString(SubSeq(stream, 1, pos)), FALSE).emits

\* C7: a malformed line between two event lines stops neither: both are
\* dispatched, next to each other; a chunk that completes only malformed
\* lines emits nothing and leaves the handle and the ready flag unchanged.
MalformedLineTolerated ==
  /\ [](\A i \in 1..(Len(script.lines) - 2) :
          ( /\ IsEvent(script.lines[i])
            /\ script.lines[i+1] = "malformed"
            /\ IsEvent(script.lines[i+2])
            /\ CompletedIn(0, pos) = 1..(i+2) ) =>
          LET k == Len(ExpectedOfLines(SubSeq(script.lines, 1, i)))
          IN /\ Len(dispatched) = k + 1
             /\ dispatched[k].kind = ExpectedOf(script.lines[i])[1].kind
             /\ dispatched[k+1].kind = ExpectedOf(script.lines[i+2])[1].kind)
  /\ [][ ( /\ lastOp'.op = "stdout"
           /\ CompletedIn(pos, pos') # {}
           /\ \A i \in CompletedIn(pos, pos') : script.lines[i] = "malformed" ) =>
         (emitted' = <<>> /\ process' = process /\ isReady' = isReady) ]_vars

MalformedLineSeen ==
  /\ script.lines = <<"ready", "malformed", "focus">>
  /\ script.terminated
  /\ pos = Len(stream)
  /\ KindsOf(dispatched) = <<"ready", "focus">>

\* C8: the notifications emitted so far are those of the complete event
\* lines delivered so far, in stream order, each once.
DispatchInStreamOrder ==
  LET expected == ExpectedUpTo(pos)
  IN /\ KindsOf(dispatched) = KindsOf(expected)
     /\ \A k \in 1..Len(expected) :
          (\A j \in 1..Len(expected[k].data) : expected[k].data[j] = "a") =>
             dispatched[k] = expected[k]

DispatchOrderSeen ==
  /\ script.lines = <<"focus", "error", "ready">>
  /\ pos = Len(stream)
  /\ dispatched = <<Note("focus", <<"a">>), Note("bridge-error", <<"a">>),
                    Note("ready", <<>>)>>

\* C9: the close handler clears the process handle and the ready flag and
\* emits one close notification carrying the exit code; running is false.
CloseClearsSession ==
  [][ lastOp'.op = "close" =>
        /\ process' = 0
        /\ isReady' = FALSE
        /\ ~running'
        /\ emitted' = <<Note("close", <<lastOp'.code>>)>> ]_vars

CloseAfterReadySeen ==
  /\ lastOp.op = "close"
  /\ lastOp.code = 137
  /\ lastOp.wasReady
  /\ lastOp.hadProcess
  /\ readyFrom = lastOp.proc
  /\ emitted = <<Note("close", <<137>>)>>
  /\ ~running

\* C10: running holds only if the ready flag was set by the stdout handler
\* of the process the handle refers to.
RunningMeansCurrentReady ==
  running => readyFrom = process

\* C11: the file names writeFrame generates (frame, the timestamp padded with
\* zeros to 16 digits, .jpg) sort by name in the order of their timestamps,
\* whatever the order in which the frames were written.
FrameNamesSortByTimestamp ==
  /\ \A t1, t2 \in Timestamps :
       (t1 < t2 /\ frameName(t1) \in dirFiles /\ frameName(t2) \in dirFiles)
         => /\ LexLess(frameName(t1), frameName(t2))
            /\ ~LexLess(frameName(t2), frameName(t1))
  /\ (lastOp.op = "writeFrame" /\ lastOp.result = "written")
       => /\ frameName(lastOp.code) \in dirFiles
          /\ Len(frameName(lastOp.code)) = PadWidth + 2

\* Frames 1000 and 1500 were written before frame 500, and all three are listed.
FramesWrittenOutOfOrder ==
  /\ lastOp.op = "writeFrame"
  /\ lastOp.result = "written"
  /\ lastOp.code = 500
  /\ frameWriter.frameCount = 3
  /\ {frameName(500), frameName(1000), frameName(1500)} \subseteq dirFiles

\* C12: after cleanup(), whatever calls preceded it, the shared directory holds
\* no frame file and no sentinel file, and the channel is inactive.
CleanupLeavesNothing ==
  [][lastOp'.op = "cleanup"
       => /\ dirFiles' = {}
          /\ ~dirExists'
          /\ ~frameWriter'.active]_vars

\* cleanup() ran on a channel that had written frames.
CleanupAfterFramesSeen ==
  /\ lastOp.op = "cleanup"
  /\ frameWriter.frameCount >= 2
  /\ ~frameWriter.active
  /\ dirFiles = {}

\* C13: writeFrame on a channel that is not active raises no error, writes no
\* file, does not recreate the directory and leaves the frame count unchanged.
InactiveWriteIsNoOp ==
  [][(lastOp'.op = "writeFrame" /\ ~frameWriter.active)
       => /\ UNCHANGED <<frameWriter, dirExists, dirFiles>>
          /\ lastOp'.result = "dropped"
          /\ effects' = <<>>]_vars

\* writeFrame was called after cleanup() on a channel that had written a frame.
InactiveWriteSeen ==
  /\ lastOp.op = "writeFrame"
  /\ lastOp.result = "dropped"
  /\ frameWriter.frameCount >= 1
  /\ ~frameWriter.active
  /\ ~dirExists

\* C14 as stated: whenever the handle of a containerized process is present,
\* the shared frame directory exists.
DirExistsWhileHandlePresent ==
  (mode = "docker" /\ process # 0) => dirExists

\* C14: whenever the handle of a containerized process is present and the
\* supervisor still holds its frame channel (stop() has not been called since
\* the channel was set up), the shared frame directory exists.
DirExistsWhileChannelHeld ==
  (mode = "docker" /\ process # 0 /\ frameWriter.present) => dirExists

\* A containerized session is up: spawned, ready, channel held, process alive.
ContainerSessionUp ==
  /\ mode = "docker"
  /\ process # 0
  /\ procState[process] = "alive"
  /\ isReady
  /\ frameWriter.present
  /\ frameWriter.active

\* C15: when a containerized session ends, by stop() or by the exit of its
\* process, the shared directory is removed, the channel is inactive and the
\* supervisor exposes no frame channel.
TeardownReleasesChannel ==
  [][(/\ mode = "docker"
      /\ frameWriter.present
      /\ process # 0
      /\ \/ lastOp'.op = "stop"
         \/ lastOp'.op = "close" /\ lastOp'.proc = process)
       => /\ ~frameWriter'.present
          /\ ~frameWriter'.active
          /\ ~dirExists'
          /\ dirFiles' = {}]_vars

ConfigErrors ==
  {"RuntimeUnavailable", "ImageBuildFailed", "ProjectRootNotFound",
   "BinaryNotFound"}

\* The effects of a start that only look at the container runtime.
Probes == {"dockerInfo", "imageInspect"}

\* C19: a start() that fails with a configuration error spawns no process,
\* leaves the handle, the frame channel and the directory as they were, and
\* when no session existed running is false and the next start() is not
\* rejected as already running.
FailedStartLeavesNoSession ==
  [][/\ lastOp'.result \in ConfigErrors
          => /\ UNCHANGED <<process, isReady, frameWriter, dirExists, dirFiles,
                            procState>>
             /\ \A k \in 1..Len(effects') : effects'[k] \in Probes
             /\ process = 0 => (process' = 0 /\ ~running')
     /\ (lastOp.result \in ConfigErrors /\ process = 0 /\ lastOp'.op = "start")
          => lastOp'.result # "AlreadyRunning"]_vars

\* A start() has just failed on the image build with no session around.
FailedBuildSeen ==
  /\ lastOp.op = "startDocker"
  /\ lastOp.result = "ImageBuildFailed"
  /\ ~lastOp.hadProcess
  /\ ~lastOp.hadWriter
  /\ process = 0
  /\ ~frameWriter.present
  /\ ~running

\* The lines of the given kinds that the step from pos to pos' completes, when
\* it completes nothing else.
OnlyCompletes(kinds, a, b) ==
  /\ CompletedIn(a, b) # {}
  /\ \A i \in CompletedIn(a, b) : script.lines[i] \in kinds

\* The notifications of kind k among notes.
CountOf(k, notes) == Cardinality({j \in 1..Len(notes) : notes[j].kind = k})

\* C16: an error record makes the supervisor emit an error notification
\* carrying the embedded message and ends nothing: the handle, the ready
\* flag, running and the frame channel are unchanged, and the record after it
\* is dispatched.
ErrorRecordNotTerminal ==
  /\ [][(lastOp'.op = "stdout" /\ OnlyCompletes({"error"}, pos, pos'))
          => /\ emitted' = [k \in 1..Cardinality(CompletedIn(pos, pos')) |->
                              Note("bridge-error", <<"a">>)]
             /\ UNCHANGED <<process, isReady, frameWriter, dirExists, procState>>
             /\ running' = running]_vars
  /\ [](\A i \in 1..(Len(script.lines) - 1) :
          ( /\ script.lines[i] = "error"
            /\ IsEvent(script.lines[i+1])
            /\ CompletedIn(0, pos) = 1..(i+1) ) =>
          LET k == Len(ExpectedOfLines(SubSeq(script.lines, 1, i)))
          IN /\ Len(dispatched) = k + 1
             /\ dispatched[k] = Note("bridge-error", <<"a">>)
             /\ dispatched[k+1].kind = ExpectedOf(script.lines[i+1])[1].kind)

\* A ready session received an error record and then a focus record.
ErrorThenFocusSeen ==
  /\ script.lines = <<"ready", "error", "focus">>
  /\ script.terminated
  /\ pos = Len(stream)
  /\ dispatched = <<Note("ready", <<>>), Note("bridge-error", <<"a">>),
                    Note("focus", <<"a">>)>>
  /\ running
  /\ frameWriter.active

\* C17: a well-formed record with a type tag outside the six known ones is
\* discarded: nothing is emitted, the supervisor's state is unchanged, and the
\* lines after it are decoded and dispatched.
UnknownTagDiscarded ==
  /\ [][(lastOp'.op = "stdout" /\ OnlyCompletes({"unknown"}, pos, pos'))
          => /\ emitted' = <<>>
             /\ dispatched' = dispatched
             /\ UNCHANGED <<process, isReady, frameWriter, dirExists, procState>>]_vars
  /\ [](\A i \in 1..(Len(script.lines) - 1) :
          ( /\ script.lines[i] = "unknown"
            /\ IsEvent(script.lines[i+1])
            /\ CompletedIn(0, pos) = 1..(i+1) ) =>
          LET k == Len(ExpectedOfLines(SubSeq(script.lines, 1, i)))
          IN /\ Len(dispatched) = k + 1
             /\ CountOf("x", dispatched) = 0
             /\ dispatched[k+1].kind = ExpectedOf(script.lines[i+1])[1].kind)

\* A record with an unknown tag arrived between a ready and a focus record.
UnknownTagSeen ==
  /\ script.lines = <<"ready", "unknown", "focus">>
  /\ script.terminated
  /\ pos = Len(stream)
  /\ KindsOf(dispatched) = <<"ready", "focus">>
  /\ running

\* The ready records complete in the first n bytes of the stream.
ReadyLinesUpTo(n) ==
  {i \in CompletedIn(0, n) : script.lines[i] \in {"ready", "readyPadded"}}

\* C18: after n >= 1 ready records from the process the ready flag is set as
\* after one, the session is intact, and exactly n ready notifications have
\* been emitted.
ReadyReEmitted ==
  LET n == Cardinality(ReadyLinesUpTo(pos))
  IN /\ CountOf("ready", dispatched) = n
     /\ isReady = (n >= 1)
     /\ n >= 1 => (process = 1 /\ running /\ procState[1] = "alive")

\* Three ready records in a row were received.
ReadyThriceSeen ==
  /\ script.lines = <<"ready", "ready", "ready">>
  /\ script.terminated
  /\ pos = Len(stream)
  /\ dispatched = <<Note("ready", <<>>), Note("ready", <<>>), Note("ready", <<>>)>>
  /\ isReady

ThresholdFlags ==
  [gazeThreshold |-> "--gaze_threshold", blinkThreshold |-> "--blink_threshold",
   pulseThreshold |-> "--pulse_threshold",
   breathingThreshold |-> "--breathing_threshold"]

\* The positions of the argument array that carry the given flag.
Occurrences(flag) == {k \in 1..Len(args) : args[k].flag = flag}

\* C20: for both backends and every configuration, the arguments of the
\* process carry the flag of a threshold exactly when that threshold is
\* configured (0 included), once, with the configured value.
ThresholdFlagsIffConfigured ==
  process # 0 =>
    \A th \in DOMAIN ThresholdFlags :
      LET occ == Occurrences(ThresholdFlags[th])
      IN IF options[th].set
         THEN /\ Cardinality(occ) = 1
              /\ \A k \in occ : args[k].value = numberToString(options[th].value)
         ELSE occ = {}

\* A local start with the gaze threshold configured as 0, the pulse threshold
\* as 5 and the other two left out.
ZeroThresholdPassedSeen ==
  /\ mode = "local"
  /\ process # 0
  /\ options.gazeThreshold = Given(0)
  /\ options.blinkThreshold = Unset
  /\ options.pulseThreshold = Given(5)
  /\ options.breathingThreshold = Unset
  /\ Occurrences("--gaze_threshold") # {}
  /\ Occurrences("--blink_threshold") = {}

\* The candidate locations by priority, highest first.
Priority == <<"bridgePath", "envPath", "buildPath", "resourcesPath">>

\* C21: the native binary is the first location, in the order override,
\* environment variable, build path, resources path, at which something
\* exists; start fails with the binary-not-found error and spawns nothing
\* exactly when nothing exists at any of them.
FirstExistingLocationWins ==
  lastOp.op = "start" =>
    /\ (lastOp.result = "BinaryNotFound")
         <=> (\A k \in 1..4 : paths[Priority[k]] # "exists")
    /\ lastOp.result = "BinaryNotFound"
         => (process = 0 /\ effects = <<>> /\ Born = {})
    /\ lastOp.result # "BinaryNotFound"
         => /\ process # 0
            /\ \E k \in 1..4 :
                 /\ effects = <<"spawn", Priority[k]>>
                 /\ paths[Priority[k]] = "exists"
                 /\ \A h \in 1..(k-1) : paths[Priority[h]] # "exists"

\* The override points at nothing, the variable is empty, both default
\* locations hold a binary: the build path was spawned.
LowerPriorityUsedSeen ==
  /\ paths = [bridgePath |-> "missing", envPath |-> "empty",
              buildPath |-> "exists", resourcesPath |-> "exists"]
  /\ lastOp.op = "start"
  /\ effects = <<"spawn", "buildPath">>
  /\ process # 0

\* The effects that create, write to or remove the shared directory.
ChannelEffects == {"init", "sentinel", "writeFile", "cleanup"}

\* C22: a native-mode supervisor never holds a frame channel, and none of its
\* steps, start() and stop() included, creates, writes to or removes the
\* shared directory.
NativeHoldsNoChannel ==
  /\ [](mode = "local" => frameWriter = NoWriter)
  /\ [][mode = "local"
          => /\ UNCHANGED <<dirExists, dirFiles>>
             /\ \A k \in 1..Len(effects') : effects'[k] \notin ChannelEffects]_vars

\* A native session was started and stopped next to a directory left over by
\* an earlier containerized session: the directory is as it was.
NativeStopSeen ==
  /\ mode = "local"
  /\ lastOp.op = "stop"
  /\ lastOp.hadProcess
  /\ InEffects("SIGTERM")
  /\ dirExists
  /\ dirFiles = {EndOfStream}
  /\ ~frameWriter.present

\* C23: stop() on a native process sends SIGTERM at once and schedules the
\* forced kill; when the delay elapses the stopped process is killed if it is
\* still running, and no forced kill reaches any process if it is not.
ForcedKillIffStillRunning ==
  /\ [][(mode = "local" /\ lastOp'.op = "stop" /\ process # 0)
          => /\ effects' = <<"SIGTERM", "setTimeout">>
             /\ timers' = Append(timers, process)]_vars
  /\ [][(mode = "local" /\ lastOp'.op = "forceKill")
          => /\ procState[lastOp'.proc] = "alive"
                  => procState'[lastOp'.proc] = "exited"
             /\ procState[lastOp'.proc] # "alive"
                  => procState' = procState]_vars

\* C24: init() leaves the directory existing and empty, the frame counter at
\* zero and the channel active, whatever it started from; a second init()
\* right after it changes nothing.
InitGivesFreshChannel ==
  /\ [][lastOp'.op = "init"
          => /\ dirExists'
             /\ dirFiles' = {}
             /\ frameWriter' = [present |-> TRUE, active |-> TRUE,
                                frameCount |-> 0]]_vars
  /\ [][(lastOp.op = "init" /\ lastOp'.op = "init")
          => UNCHANGED <<frameWriter, dirExists, dirFiles>>]_vars

\* init() ran on a directory that held leftover files.
InitOverLeftoversSeen ==
  /\ lastOp.op = "init"
  /\ effects = <<"init", "unlink">>
  /\ dirExists
  /\ dirFiles = {}
  /\ frameWriter.active
  /\ frameWriter.frameCount = 0

\* C26: every accepted writeFrame call produces a file of its own: it
\* overwrites no earlier frame, so each successful write adds one file to the
\* directory as it adds one to the frame count.
DistinctFramesDistinctFiles ==
  [][(lastOp'.op = "writeFrame" /\ lastOp'.result = "written")
       => /\ frameName(lastOp'.code) \notin dirFiles
          /\ Cardinality(dirFiles') = Cardinality(dirFiles) + 1
          /\ frameWriter'.frameCount = frameWriter.frameCount + 1]_vars

\* C27: when a frame channel exists, stop() removes its directory and
\* releases the channel, also when the termination request fails and when no
\* process handle is present, and reports no failure.
StopAlwaysRemovesDirectory ==
  [][(lastOp'.op = "stop" /\ frameWriter.present)
       => /\ ~dirExists'
          /\ dirFiles' = {}
          /\ frameWriter' = NoWriter
          /\ lastOp'.result = "ok"
          /\ \E k \in 1..Len(effects') : effects'[k] = "cleanup"]_vars

\* stop() ran on a containerized session, `docker stop` failed and left the
\* process running, and the directory is gone all the same.
StopWithFailedTerminationSeen ==
  /\ mode = "docker"
  /\ lastOp.op = "stop"
  /\ lastOp.hadWriter
  /\ lastOp.hadProcess
  /\ process # 0
  /\ procState[process] = "alive"
  /\ InEffects("dockerStop")
  /\ ~dirExists
  /\ frameWriter = NoWriter

\* C28: a process error is reported as an error notification and ends the
\* session: once the handler has run for the supervisor's process, the handle
\* is absent and running is false.
ProcessErrorEndsSession ==
  [][lastOp'.op = "error"
       => /\ emitted' = <<Note("error", <<>>)>>
          /\ lastOp'.proc = process => (process' = 0 /\ ~running')]_vars

\* The notifications of kind close among those of the step just taken.
ClosesIn(notes) == {k \in 1..Len(notes) : notes[k].kind = "close"}

\* C29: close is emitted only by the handler of a process's exit, once per
\* process; stop() emits nothing and leaves the handle; a process whose exit
\* is pending keeps its close handler, stopped or not, and a closed process
\* never closes again.
CloseOncePerExit ==
  /\ [][lastOp'.op = "stop" => (emitted' = <<>> /\ process' = process)]_vars
  /\ [][ClosesIn(emitted') # {}
          => /\ lastOp'.op = "close"
             /\ emitted' = <<Note("close", <<lastOp'.code>>)>>
             /\ procState[lastOp'.proc] = "exited"
             /\ procState'[lastOp'.proc] = "closed"]_vars
  /\ [][\A p \in ProcIds :
          /\ procState[p] = "closed" => procState'[p] = "closed"
          /\ (procState[p] = "exited" /\ procState'[p] # "exited")
               => (lastOp'.op = "close" /\ lastOp'.proc = p)]_vars
  /\ [](\A p \in ProcIds :
          (procState[p] = "exited" /\ NoMicrotask)
            => ENABLED (\E code \in ExitCodes : closeHandler(p, code)))

\* A process was stopped, exited afterwards, and its close has been emitted
\* while the handle was still its own.
CloseAfterStopSeen ==
  /\ lastOp.op = "close"
  /\ lastOp.hadProcess
  /\ ~lastOp.hadWriter
  /\ mode = "docker"
  /\ procState[lastOp.proc] = "closed"
  /\ emitted = <<Note("close", <<lastOp.code>>)>>
  /\ process = 0

\* C25: no frame file is written once the sentinel has been written: a frame
\* is only ever written through a held, active channel into a directory
\* without sentinel; the stop() that writes the sentinel releases the channel
\* and removes the directory in the same step, and a frame message handled
\* right after stop() writes nothing.
NoFrameAfterSentinel ==
  /\ [][(lastOp'.op = "writeFrame" /\ lastOp'.result = "written")
          => /\ frameWriter.present
             /\ frameWriter.active
             /\ EndOfStream \notin dirFiles
             /\ EndOfStream \notin dirFiles']_vars
  /\ [][(lastOp'.op = "stop" /\ \E k \in 1..Len(effects') : effects'[k] = "sentinel")
          => (~frameWriter'.present /\ ~dirExists')]_vars
  /\ [][(lastOp.op = "stop" /\ lastOp'.op \in {"frameData", "writeFrame"})
          => /\ lastOp'.result = "noWriter"
             /\ UNCHANGED <<dirExists, dirFiles, frameWriter>>]_vars

\* A frame message arrived after stop() on a session whose process has not
\* closed yet, and was dropped.
FrameAfterStopDroppedSeen ==
  /\ lastOp.op = "frameData"
  /\ lastOp.result = "noWriter"
  /\ bridge
  /\ process # 0
  /\ procState[process] \in {"alive", "exited"}
  /\ ~frameWriter.present
  /\ ~dirExists

\* C30: a bridge start request made while no credential is configured sends
\* an error to the caller and does nothing else: no supervisor is created, no
\* process spawned, no frame directory created; and it fails this way exactly
\* when no credential is configured.
MissingCredentialFailsStart ==
  [][lastOp'.op = "bridgeStart"
       => /\ (lastOp'.result = "NoApiKey") <=> ~apiKey'
          /\ lastOp'.result = "NoApiKey"
               => /\ UNCHANGED <<bridge, process, isReady, frameWriter,
                                 dirExists, dirFiles, procState, pending,
                                 orphanStarts>>
                  /\ effects' = <<>>
                  /\ Len(emitted') = 1
                  /\ emitted'[1].kind = "bridge:error"]_vars

\* A start request without credential was answered with an error; there is
\* no supervisor and no process.
MissingCredentialSeen ==
  /\ lastOp.op = "bridgeStart"
  /\ lastOp.result = "NoApiKey"
  /\ ~apiKey
  /\ ~bridge
  /\ Born = {}
  /\ emitted = <<Note("bridge:error", "No SMARTSPECTRA_API_KEY set")>>

\* C32: a chunk on stderr is never parsed or dispatched: whatever it holds, a
\* well-formed event line included, the handler emits no notification and
\* leaves the decode buffer, the ready flag and the process handle as they
\* were; its only effect is the log line.
StderrNeverParsed ==
  [][lastOp'.op = "stderr"
       => /\ emitted' = <<>>
          /\ UNCHANGED <<lineBuffer, isReady, process, frameWriter, readyFrom>>
          /\ effects' \in {<<>>, <<"console.log", "{", "r", "}">>}]_vars

\* A ready line arrived on stderr of the current process before any ready
\* record on stdout: it was logged and the session is still not ready.
StderrEventLineSeen ==
  /\ lastOp.op = "stderr"
  /\ lastOp.proc = process
  /\ effects = <<"console.log", "{", "r", "}">>
  /\ ~isReady
  /\ emitted = <<>>

\* C34: a containerized start() runs its steps in one order and stops at the
\* first failure: the runtime probe; the image test, with a build only when
\* the image is absent; after the build, the removal of a stale container,
\* whose failure is not fatal; the creation and initialisation of the frame
\* channel; the spawn.  The process is spawned with the shared directory
\* existing and empty, and an image that exists is never rebuilt.
ContainerStartInOrder ==
  /\ [][(mode = "docker" /\ lastOp'.op = "start")
          => /\ UNCHANGED <<managerVars, dirVars, procState>>
             /\ \/ /\ lastOp'.result = "AlreadyRunning"
                   /\ effects' = <<>>
                   /\ UNCHANGED pending
                \/ /\ lastOp'.result = "RuntimeUnavailable"
                   /\ effects' = <<"dockerInfo">>
                   /\ UNCHANGED pending
                \/ /\ lastOp'.result = "ProjectRootNotFound"
                   /\ ~imageBuilt
                   /\ effects' = <<"dockerInfo", "imageInspect">>
                   /\ UNCHANGED pending
                \/ /\ lastOp'.result = "pending"
                   /\ imageBuilt
                   /\ effects' = <<"dockerInfo", "imageInspect">>
                   /\ pending'.build = pending.build
                \/ /\ lastOp'.result = "pending"
                   /\ ~imageBuilt
                   /\ effects' = <<"dockerInfo", "imageInspect", "spawnBuild">>
                   /\ pending'.build = pending.build + 1]_vars
  /\ [][lastOp'.op = "startDocker"
          => \/ /\ lastOp'.result = "ImageBuildFailed"
                /\ effects' = <<>>
                /\ UNCHANGED <<managerVars, dirVars, procState>>
             \/ /\ lastOp'.result = "ok"
                /\ effects' = <<"dockerRm", "init", "spawn">>
                /\ dirExists' /\ dirFiles' = {}
                /\ frameWriter' = [present |-> TRUE, active |-> TRUE,
                                   frameCount |-> 0]
                /\ process' = lastOp'.proc
                /\ procState[process'] = "unborn"
                /\ procState'[process'] = "alive"]_vars

\* A start that built the image first has spawned its process, and the
\* process of an earlier start is still alive: the removal of the stale
\* container had failed and the start went on.
BuiltThenSpawnedSeen ==
  /\ lastOp.op = "startDocker"
  /\ lastOp.result = "ok"
  /\ emitted[1] = Note("status", "Docker image built successfully")
  /\ Cardinality(Alive) = 2
  /\ dirExists /\ dirFiles = {}

\* C35: the forced kill scheduled by a native-mode stop() reaches only the
\* process that stop() was called on: when its timer fires, no other process
\* is ended, however many sessions were started in the meantime.
ForcedKillOnlyStoppedProcess ==
  [][(mode = "local" /\ lastOp'.op = "forceKill")
       => /\ \A p \in ProcIds \ {lastOp'.proc} : procState'[p] = procState[p]
          /\ InEffects("SIGKILL")' => process = lastOp'.proc]_vars

\* C36: the decode buffer belongs to one session: whenever a process is
\* spawned and becomes the handle, the decode buffer is empty, so that text
\* left by an earlier process is never joined with the new one's output.
BufferEmptyAtSpawn ==
  [][(process' # 0 /\ process' # process) => lineBuffer' = <<>>]_vars

\* C37: a bridge start request made while the current supervisor holds a
\* live process, ready or not, or has a start in progress, neither replaces
\* the supervisor nor spawns a process; hence no live process is ever left
\* on a supervisor that a bridge stop request cannot reach.
StartRequestKeepsSupervisor ==
  /\ [][(/\ lastOp'.op = "bridgeStart"
          /\ bridge
          /\ \/ process # 0 /\ procState[process] = "alive"
             \/ PendingCount > 0)
          => /\ ~InEffects("newBridgeManager")'
             /\ process' = process
             /\ procState' = procState
             /\ orphanStarts' = orphanStarts]_vars
  /\ [](\A p \in ProcIds : procState[p] # "orphaned")

\* C38: the frame count of a channel is the number of writeFrame calls that
\* wrote a file since the last init(): init() sets it to zero, a write that
\* succeeds adds exactly one, and a failed write, a write on an inactive
\* channel, writeEndOfStream(), cleanup() and the loss of the directory
\* leave it as it was.
FrameCountCountsWrites ==
  [][/\ lastOp'.op = "init" => frameWriter'.frameCount = 0
     /\ (lastOp'.op = "writeFrame" /\ lastOp'.result = "written")
          => /\ frameWriter.active
             /\ frameWriter'.frameCount = frameWriter.frameCount + 1
     /\ (lastOp'.op = "writeFrame" /\ lastOp'.result # "written")
          => frameWriter'.frameCount = frameWriter.frameCount
     /\ (lastOp'.op = "writeFrame" /\ ~frameWriter.active)
          => frameWriter'.frameCount = frameWriter.frameCount
     /\ lastOp'.op \in {"writeEndOfStream", "cleanup", "dirRemoved"}
          => frameWriter'.frameCount = frameWriter.frameCount]_vars

\* Two frames were written, the directory was lost, and the write that
\* followed failed: the count is still two.
FailedWriteAfterTwoSeen ==
  /\ lastOp.op = "writeFrame"
  /\ lastOp.result = "failed"
  /\ frameWriter.active
  /\ frameWriter.frameCount = 2

\* The text after the last line terminator of a text (all of it if none).
AfterLastTerminator(text) ==
  LET at == {i \in 1..Len(text) : text[i] = LF}
  IN IF at = {} THEN text
     ELSE SubSeq(text, (CHOOSE i \in at : \A j \in at : j <= i) + 1, Len(text))

\* C31: after every stdout chunk the decode buffer holds at most one pending
\* partial line: it contains no line terminator, and it is exactly the text
\* received after the last line terminator seen so far - the buffer it had,
\* followed by the text of the chunk, cut after the last terminator; for a
\* stream of single-byte characters, the bytes delivered since the last
\* terminator.
BufferIsPendingLine ==
  /\ [](\A i \in 1..Len(lineBuffer) : lineBuffer[i] # LF)
  /\ [][lastOp'.op = "stdout"
          => lineBuffer' =
               AfterLastTerminator(lineBuffer
                                   \o toString(SubSeq(stream, pos + 1, pos')))]_vars
  /\ []((\A i \in 1..Len(stream) : stream[i] \notin {"C3", "A9"})
          => lineBuffer = AfterLastTerminator(SubSeq(stream, 1, pos)))

\* A chunk ended one line, dispatched it, and left the beginning of the
\* next line in the buffer.
PartialAfterCompleteSeen ==
  /\ lastOp.op = "stdout"
  /\ emitted # <<>>
  /\ lineBuffer # <<>>
  /\ \E i \in 1..pos : stream[i] = LF

RECURSIVE RecordsOf(_)
\* The records decoded from the given lines, in order: those of the lines
\* that are not blank and that parse.
RecordsOf(lines) ==
  IF lines = <<>> THEN <<>>
  ELSE LET r == JSONParse(trim(Head(lines)))
       IN (IF r.ok THEN <<r>> ELSE <<>>) \o RecordsOf(Tail(lines))

RecognisedTags == {"ready", "status", "focus", "metrics", "edge", "error"}

\* Notification n is the one the protocol assigns to record r.
NotificationFor(n, r) ==
  CASE r.type \in {"focus", "metrics", "edge"} -> n = Note(r.type, r.data)
    [] r.type = "status" -> n = Note("status", r.data.status)
    [] r.type = "ready"  -> n.kind = "ready"
    [] r.type = "error"  -> n.kind = "bridge-error"
    [] OTHER -> FALSE

\* C33: every decoded record with a recognised type tag yields exactly one
\* notification of its kind, in order: focus, metrics and edge carry the
\* record's data as it is, status carries the status string of its data;
\* records of type status, focus, metrics and edge leave the ready flag and
\* the process handle as they were.
OneNotificationPerRecord ==
  [][lastOp'.op = "stdout"
       => LET text  == lineBuffer \o toString(SubSeq(stream, pos + 1, pos'))
              lines == split(text)
              all   == RecordsOf(SubSeq(lines, 1, Len(lines) - 1))
              recs  == SelectSeq(all, LAMBDA r : r.type \in RecognisedTags)
          IN /\ Len(emitted') = Len(recs)
             /\ \A k \in 1..Len(recs) : NotificationFor(emitted'[k], recs[k])
             /\ (\A k \in 1..Len(recs) :
                    recs[k].type \in {"status", "focus", "metrics", "edge"})
                  => isReady' = isReady /\ process' = process]_vars

\* One chunk completed a metrics or edge record and a status record with a
\* non-ASCII text: two notifications, and the ready flag still unset.
TwoRecordsOneChunkSeen ==
  /\ lastOp.op = "stdout"
  /\ ~lastOp.wasReady
  /\ ~isReady
  /\ Len(emitted) = 2
  /\ emitted[1].kind \in {"metrics", "edge"}
  /\ emitted[2] = Note("status", <<"U+00E9">>)

\* The timers of one kind that the event loop holds.
TimersOf(kind) == {t \in monitor.timeouts : t.kind = kind}

\* The time between the last two triggers sent.
TriggerGap == monitor.triggers[2].time - monitor.triggers[1].time

\* C39: two consecutive triggers of which at least one came from a change
\* request are at least DEBOUNCE_MS apart; a change request during the
\* cooldown sends nothing and leaves exactly one queued trigger, due when
\* the cooldown counted from the last trigger ends, however many requests
\* were made; and the queued trigger is sent at that time.
ChangeTriggersDebounced ==
  /\ []((/\ Len(monitor.triggers) = 2
          /\ \E k \in 1..2 : monitor.triggers[k].cause \in {"change", "queued"})
          => TriggerGap >= DEBOUNCE_MS)
  /\ [](Cardinality(TimersOf("pending")) <= 1)
  /\ [][(/\ lastOp'.result = "requested"
          /\ monitor.now - monitor.lastTriggerTime < DEBOUNCE_MS)
          => /\ emitted' = <<>>
             /\ monitor'.triggers = monitor.triggers
             /\ TimersOf("pending")' =
                  {[kind |-> "pending",
                    due |-> monitor.lastTriggerTime + DEBOUNCE_MS]}]_vars
  /\ [][lastOp'.op = "pendingTrigger"
          => /\ monitor.now = monitor.lastTriggerTime + DEBOUNCE_MS
             /\ emitted' # <<>>
             /\ TimersOf("pending")' = {}]_vars

\* A change request made during the cooldown was queued, and its trigger
\* was sent DEBOUNCE_MS after the trigger before it.
QueuedTriggerSentSeen ==
  /\ lastOp.op = "pendingTrigger"
  /\ Len(monitor.triggers) = 2
  /\ monitor.triggers[2].cause = "queued"
  /\ TriggerGap = DEBOUNCE_MS

=============================================================================
